---- MODULE Spec2Model ----
(***************************************************************************)
(* MagnetBoard crawl subsystem: NewCrawlerManager (new_crawler_manager.py) *)
(* driving NewCrawlerController (new.py) on one asyncio event loop.        *)
(*                                                                         *)
(* A step of the model is the code one coroutine runs between two real     *)
(* suspension points (an awaited browser acquisition, HTTP request, sleep  *)
(* or client close); everything between two suspensions is atomic, as it   *)
(* is on a single-threaded event loop.  The state is carried through the   *)
(* synchronous code as a record s, and the operators below are named after *)
(* the methods whose code they follow.                                     *)
(***************************************************************************)
EXTENDS Integers, Sequences, FiniteSets, TLC

VARIABLES
    is_running,          \* NewCrawlerManager.is_running
    crawler,             \* NewCrawlerManager.crawler is not None
    crawler_is_running,  \* NewCrawlerController.is_running (also the stop flag)
    refresh_due,         \* time.time() - last_cookies_refresh > cookies_refresh_interval
    cookies_file,        \* what is on disk at data/cookies.json
    store,               \* magnet_links table: magnet_hash -> rows with that hash
    forum,               \* how many threads the forum lists
    call,                \* per caller: the frame of its start_crawler invocation
    status_callback,     \* NewCrawlerManager.status_callback is not None
    crawler_status,      \* crawler_status["is_running"] of routes/crawler_routes.py
    keywords             \* the keywords the callers pass to start_crawler

vars == <<is_running, crawler, crawler_is_running, refresh_due, cookies_file, store, forum, call,
          status_callback, crawler_status, keywords>>

VARIABLES
    scheduler_running,   \* SchedulerManager.scheduler_running
    running_tasks,       \* SchedulerManager.running_tasks: task id -> handle
    tasks,               \* scheduled_tasks table: task id -> row, for the rows there are
    invocations,         \* the run_task coroutines there are: handle -> frame
    polling              \* the start_scheduler coroutines there are: where each one is

scheduler_vars == <<scheduler_running, running_tasks, tasks, invocations, polling>>

VARIABLES
    max_concurrent,      \* CrawlerHttpClient.max_concurrent
    semaphore,           \* CrawlerHttpClient.semaphore: free slots
    http2,               \* the site negotiates HTTP/2 with the httpx client (http2=True)
    fetches,             \* the HTTP requests of one crawl that were issued: fetch -> frame
    phase                \* where the crawl is: probe, list page, detail page

fetch_vars == <<max_concurrent, semaphore, http2, fetches, phase>>

VARIABLES
    applied,             \* the pure function that was applied ("none": not yet)
    input,               \* its argument
    output               \* its return value

pure_vars == <<applied, input, output>>

VARIABLES
    jar_file,            \* data/cookies.json as a process finds it on disk
    jar_writer,          \* where the write of collect_cookies is
    jar_loaded           \* what load_cookies returned last, and how often it ran

cookie_vars == <<jar_file, jar_writer, jar_loaded>>

\* What a step of one component leaves alone.
outside_crawler == <<scheduler_vars, fetch_vars, pure_vars, cookie_vars>>
outside_scheduler == <<vars, fetch_vars, pure_vars, cookie_vars>>
outside_fetch == <<vars, scheduler_vars, pure_vars, cookie_vars>>
outside_pure == <<vars, scheduler_vars, fetch_vars, cookie_vars>>
outside_cookie_file == <<vars, scheduler_vars, fetch_vars, pure_vars>>

\* ------------------------------------------------------------------ bounds

\* Last page of the crawled range (start_page is 1).
MaxPage == 2

\* self.max_cf_retries
max_cf_retries == 3

\* self.cf_retry_delay, in seconds
cf_retry_delay == 60

\* The two call sites of start_crawler on the process-wide manager:
\* routes/crawler_routes.py (background task) and scheduler_manager.py (run_task).
Callers == {"api", "scheduler"}

start_page == 1
end_page == MaxPage

\* Magnet URIs a detail page can carry.
Magnets == {"m1"}

\* Python's None, where a record may stand instead.
None == [none |-> TRUE]

\* ------------------------------------------------------------------ the site

\* The links parse_list_page collects from list page p through the two URL
\* templates together, before it deduplicates them: on a forum of n threads,
\* page p links thread p through both templates and, from page 2 on, thread
\* p-1 again; a page past the forum's last thread links the last thread only.
PageLinks(n, p) ==
    IF p = 1 THEN <<[tid |-> 1], [tid |-> 1]>>
    ELSE IF p <= n THEN <<[tid |-> p], [tid |-> p - 1], [tid |-> p]>>
    ELSE <<[tid |-> n], [tid |-> n]>>

TIDs == 1..MaxPage

\* A detail response: HTTP status, magnet URIs in the page text, magnet hrefs.
DetailResponses ==
    {[status |-> 404, text |-> {}, anchors |-> {}]} \cup
    {[status |-> 200, text |-> t, anchors |-> a] : t \in SUBSET Magnets, a \in SUBSET Magnets}

\* ------------------------------------------------------------------ pure functions

\* The loop of deduplicate_threads from index i on; a link without a thread
\* identifier (tid None) carries tid 0.
RECURSIVE dedup(_, _, _)
dedup(threads, i, seen) ==
    IF i > Len(threads) THEN <<>>
    ELSE IF threads[i].tid > 0 /\ threads[i].tid \notin seen
         THEN <<threads[i]>> \o dedup(threads, i + 1, seen \cup {threads[i].tid})
         ELSE dedup(threads, i + 1, seen)

\* deduplicate_threads with `tid not in seen_tids` as its only condition
RECURSIVE dedup_unidentified_kept(_, _, _)
dedup_unidentified_kept(threads, i, seen) ==
    IF i > Len(threads) THEN <<>>
    ELSE IF threads[i].tid \notin seen
         THEN <<threads[i]>> \o dedup_unidentified_kept(threads, i + 1, seen \cup {threads[i].tid})
         ELSE dedup_unidentified_kept(threads, i + 1, seen)

deduplicate_threads_unidentified_kept(threads) == dedup_unidentified_kept(threads, 1, {})

\* ListPageParser.deduplicate_threads
deduplicate_threads(threads) == dedup(threads, 1, {})

\* ListPageParser.extract_magnet_links: text matches and magnet hrefs, as a set
extract_magnet_links(response) == response.text \cup response.anchors

parse_thread_detail_unfiltered(response) ==
    IF response.status # 200 THEN None
    ELSE [magnets |-> extract_magnet_links(response)]

\* ListPageParser.parse_thread_detail: None unless status 200 and a magnet is found
parse_thread_detail(response) ==
    IF response.status # 200 THEN None
    ELSE IF extract_magnet_links(response) = {} THEN None
    ELSE [magnets |-> extract_magnet_links(response)]

\* ------------------------------------------------------------------ keywords

UpperCase ==
    <<"A", "B", "C", "D", "E", "F", "G", "H", "I", "J", "K", "L", "M",
      "N", "O", "P", "Q", "R", "S", "T", "U", "V", "W", "X", "Y", "Z">>

LowerCase ==
    <<"a", "b", "c", "d", "e", "f", "g", "h", "i", "j", "k", "l", "m",
      "n", "o", "p", "q", "r", "s", "t", "u", "v", "w", "x", "y", "z">>

Letters == {UpperCase[i] : i \in 1..Len(UpperCase)} \cup {LowerCase[i] : i \in 1..Len(LowerCase)}

\* str.lower()
lower_char(c) ==
    IF \E i \in 1..Len(UpperCase) : UpperCase[i] = c
    THEN LowerCase[CHOOSE i \in 1..Len(UpperCase) : UpperCase[i] = c]
    ELSE c

lower(s) == [i \in 1..Len(s) |-> lower_char(s[i])]

\* p occurs in s at index i; p in s
StartsAt(s, i, p) == i + Len(p) - 1 <= Len(s) /\ SubSeq(s, i, i + Len(p) - 1) = p
Contains(s, p) == \E i \in 1..(Len(s) + 1) : StartsAt(s, i, p)

\* The title the list pages give the link of thread tid.
title_of(tid) ==
    IF tid % 2 = 0 THEN <<"S", "S", "I", "S", "-", "0", "0", "2">>
    ELSE <<"A", "B", "P", "-", "0", "0", "1">>

\* The keywords a caller passes: None, an empty list, or "mide" and "Ssis".
Keywords ==
    {None, [words |-> <<>>],
     [words |-> << <<"m", "i", "d", "e">>, <<"S", "s", "i", "s">> >>]}

\* ListPageParser.filter_threads_by_keywords, lines 350-359: the loop from
\* index i on
RECURSIVE filter_from(_, _, _)
filter_from(threads, words, i) ==
    IF i > Len(threads) THEN <<>>
    ELSE (IF \E k \in 1..Len(words) :
                Contains(lower(title_of(threads[i].tid)), lower(words[k]))
          THEN <<threads[i]>> ELSE <<>>)
         \o filter_from(threads, words, i + 1)

\* ListPageParser.filter_threads_by_keywords
filter_threads_by_keywords(threads, words) ==
    IF words = <<>> THEN threads ELSE filter_from(threads, words, 1)

\* ------------------------------------------------------------------ frames

IdleFrame ==
    [pc |-> "idle", attempt |-> 0, page |-> 0, all_threads |-> <<>>,
     threads |-> <<>>, i |-> 0, detailed |-> <<>>, detail |-> None,
     response |-> None, result |-> None,
     checks |-> 0, crawls |-> 0, fetched |-> FALSE, stopped |-> FALSE,
     saves |-> <<>>, slept |-> 0]

\* The state as one record, threaded through the synchronous code.
S ==
    [is_running |-> is_running, crawler |-> crawler,
     crawler_is_running |-> crawler_is_running, refresh_due |-> refresh_due,
     cookies_file |-> cookies_file, store |-> store, forum |-> forum, call |-> call,
     status_callback |-> status_callback, crawler_status |-> crawler_status,
     keywords |-> keywords]

Commit(t) ==
    /\ is_running' = t.is_running
    /\ crawler' = t.crawler
    /\ crawler_is_running' = t.crawler_is_running
    /\ refresh_due' = t.refresh_due
    /\ cookies_file' = t.cookies_file
    /\ store' = t.store
    /\ forum' = t.forum
    /\ call' = t.call
    /\ status_callback' = t.status_callback
    /\ crawler_status' = t.crawler_status
    /\ keywords' = t.keywords
    /\ UNCHANGED outside_crawler

\* The caller's coroutine suspends at pc.
Suspend(s, c, pc) == [s EXCEPT !.call[c].pc = pc]

\* asyncio.sleep(seconds) in test_connection_with_retry; slept is the length
\* of the latest such sleep of the invocation (0: none yet), kept until the
\* loop ends
sleep_probe(s, c, seconds) ==
    [s EXCEPT !.call[c].pc = "sleep_probe", !.call[c].slept = seconds]

\* ------------------------------------------------------------------ status

\* What update_status is called with.
Statuses == {"starting", "crawling", "completed", "error", "stopped"}

\* status_callback of routes/crawler_routes.py: "crawling" sets the flag the
\* status route reports, "completed", "error" and "stopped" clear it
route_status_callback(s, status) ==
    IF status = "crawling" THEN [s EXCEPT !.crawler_status = TRUE]
    ELSE IF status \in {"completed", "error", "stopped"} THEN [s EXCEPT !.crawler_status = FALSE]
    ELSE s

\* NewCrawlerManager.update_status: the callback, if one was registered
update_status(s, status) ==
    IF s.status_callback THEN route_status_callback(s, status) ELSE s

\* GET /api/crawler/status: the is_running it answers
get_crawler_status == crawler_status

\* ------------------------------------------------------------------ cookies

\* NewCrawlerManager.should_refresh_cookies (auto_refresh_cookies is always True)
should_refresh_cookies(s) == s.refresh_due

ensure_fresh_cookies_no_file_check(s) ==
    IF should_refresh_cookies(s) THEN "acquire" ELSE "true"

\* NewCrawlerManager.ensure_fresh_cookies up to its first await: "acquire" when it
\* goes on to collect_cookies_auto, "true" when it returns True, "raise" when
\* Path.exists() raises (a cookie path that cannot be stat'ed)
ensure_fresh_cookies(s) ==
    IF should_refresh_cookies(s) THEN "acquire"
    ELSE IF s.cookies_file = "noaccess" THEN "raise"
    ELSE IF s.cookies_file \in {"missing", "empty", "corrupt"} THEN "acquire"
    ELSE "true"

\* What collect_cookies can come back with.
Acquisitions == {"cookies", "zero", "error"}

\* NewCrawlerManager.collect_cookies_auto after collect_cookies came back: the
\* file and last_cookies_refresh it leaves.  "cookies": a non-empty jar written;
\* "zero": an empty jar written, reported as failure; "error": nothing written.
\* An unwritable path makes the write raise, which collect_cookies swallows.
collect_cookies_auto(s, o) ==
    IF s.cookies_file = "noaccess" \/ o = "error" THEN s
    ELSE IF o = "zero" THEN [s EXCEPT !.cookies_file = "empty"]
    ELSE [s EXCEPT !.cookies_file = "ok", !.refresh_due = FALSE]

\* The value collect_cookies_auto returns.
collected(s, o) == s.cookies_file # "noaccess" /\ o = "cookies"

\* ------------------------------------------------------------------ start_crawler: return

\* The frame start_crawler leaves to its caller: the result, and of the
\* history what the properties below read of a finished invocation.
DoneFrame(f, result) ==
    [IdleFrame EXCEPT !.pc = "done", !.result = result,
                      !.checks = IF result.message = "connection_failed" THEN f.checks ELSE 0,
                      !.crawls = f.crawls, !.fetched = f.fetched]

\* start_crawler, lines 276 and 282: update_status before the return of the
\* crawl's result and in the except clause; the two early returns call nothing
returned_status(s, message) ==
    IF message = "completed" THEN update_status(s, "completed")
    ELSE IF message = "exception" THEN update_status(s, "error")
    ELSE s

start_crawler_return_reraising(s, c, message, threads) ==
    [returned_status(s, message) EXCEPT !.is_running = FALSE,
              !.call[c] = IF message = "exception"
                          THEN [DoneFrame(s.call[c], [message |-> message])
                                    EXCEPT !.result = [raised |-> TRUE]]
                          ELSE DoneFrame(s.call[c],
                                   [success |-> message = "completed", message |-> message,
                                    count |-> Len(threads)])]

\* NewCrawlerManager.start_crawler: its return statements, its except clause
\* (message "exception") and its finally clause
start_crawler_return(s, c, message, threads) ==
    [returned_status(s, message) EXCEPT !.is_running = FALSE,
              !.call[c] = DoneFrame(s.call[c],
                              [success |-> message = "completed", message |-> message,
                               count |-> Len(threads)])]

\* ------------------------------------------------------------------ crawl_with_retry

\* range(self.max_cf_retries + 1) of crawl_with_retry
crawl_attempts == max_cf_retries + 1

\* crawl_with_retry's except clause, entered in attempt call[c].attempt: the
\* iteration's locals are gone; re-acquire and retry, or give up
crawl_except(s, c) ==
    LET s1 == [s EXCEPT !.call[c].detailed = <<>>, !.call[c].saves = <<>>] IN
    IF s.call[c].attempt < max_cf_retries THEN Suspend(s1, c, "acq_except")
    ELSE start_crawler_return(s1, c, "completed", <<>>)

after_crawl_no_retry_limit(s, c, threads) ==
    IF threads # <<>> THEN start_crawler_return(s, c, "completed", threads)
    ELSE Suspend(s, c, "acq_retry")

\* NewCrawlerManager.crawl_with_retry after crawl_single_theme returned threads
\* in attempt call[c].attempt: return them, or re-acquire and retry, or give up.
\* crawl_with_retry's return value becomes start_crawler's "completed" result.
after_crawl(s, c, threads) ==
    IF threads # <<>> THEN start_crawler_return(s, c, "completed", threads)
    ELSE IF s.call[c].attempt < max_cf_retries THEN Suspend(s, c, "acq_retry")
    ELSE start_crawler_return(s, c, "completed", <<>>)

\* ------------------------------------------------------------------ crawl_single_theme

\* crawl_single_theme from the end of crawl_thread_details: save_results, then
\* the finally clause awaits close_client before it clears is_running
end_crawl(s, c) ==
    [s EXCEPT !.call[c].pc = "closing", !.call[c].threads = <<>>,
              !.call[c].i = 0, !.call[c].stopped = FALSE]

\* crawl_thread_details: the head of the loop for the i-th surviving thread
detail_loop(s, c, i) ==
    IF i > Len(s.call[c].threads) \/ ~s.crawler_is_running
    THEN end_crawl(s, c)
    ELSE [s EXCEPT !.call[c].pc = "detail", !.call[c].i = i]

\* crawl_single_theme, lines 792-802, without the keyword filter.
after_pages_not_filtering(s, c) ==
    detail_loop([s EXCEPT !.call[c].threads = deduplicate_threads(s.call[c].all_threads),
                          !.call[c].all_threads = <<>>,
                          !.call[c].page = 0], c, 1)

\* crawl_single_theme after the page loop, lines 792-802: deduplicate, filter
\* by the keywords if there are any, then crawl_thread_details
after_pages(s, c) ==
    LET unique_threads == deduplicate_threads(s.call[c].all_threads)
        filtered_threads ==
            IF s.keywords # None /\ s.keywords.words # <<>>
            THEN filter_threads_by_keywords(unique_threads, s.keywords.words)
            ELSE unique_threads
    IN  detail_loop([s EXCEPT !.call[c].threads = filtered_threads,
                              !.call[c].all_threads = <<>>,
                              !.call[c].page = 0], c, 1)

\* crawl_single_theme: the head of the page loop for page p
page_loop(s, c, p) ==
    IF p > end_page \/ ~s.crawler_is_running
    THEN after_pages(s, c)
    ELSE [s EXCEPT !.call[c].pc = "list", !.call[c].page = p]

\* crawl_single_theme, lines 788-790, with break in place of continue.
page_except_breaking(s, c) == after_pages(s, c)

\* crawl_single_theme, lines 788-790: an Exception raised in the iteration of
\* page call[c].page is logged, and continue goes to the next page
page_except(s, c) == page_loop(s, c, s.call[c].page + 1)

\* crawl_single_theme, lines 771-786: parse_list_page returned threads (none
\* when both requests failed); sleep unless this was the last page
page_done(s, c, threads) ==
    LET s1 == [s EXCEPT !.call[c].all_threads = @ \o threads] IN
    IF s.call[c].page < end_page THEN Suspend(s1, c, "sleep_page")
    ELSE page_loop(s1, c, s.call[c].page + 1)

\* NewCrawlerController.crawl_single_theme up to its first suspension
crawl_single_theme(s, c) ==
    LET s1 == [s EXCEPT !.call[c].crawls = @ + 1] IN
    IF s1.crawler_is_running THEN after_crawl(s1, c, <<>>)
    ELSE page_loop([s1 EXCEPT !.crawler_is_running = TRUE,
                              !.call[c].all_threads = <<>>,
                              !.call[c].threads = <<>>,
                              !.call[c].detailed = <<>>,
                              !.call[c].stopped = FALSE,
                              !.call[c].saves = <<>>], c, start_page)

\* crawl_with_retry: one iteration of its loop, up to the first suspension
crawl_attempt(s, c, k) ==
    LET s1 == [s EXCEPT !.call[c].attempt = k]
        e == ensure_fresh_cookies(s1)
    IN  IF k >= crawl_attempts THEN start_crawler_return(s, c, "completed", <<>>)
        ELSE IF e = "acquire" THEN Suspend(s1, c, "acq_crawl")
        ELSE IF e = "raise" THEN crawl_except(s1, c)
        ELSE crawl_single_theme(s1, c)

\* ------------------------------------------------------------------ test_connection_with_retry

probe_attempts_one_more == max_cf_retries + 2

\* range(self.max_cf_retries + 1) of test_connection_with_retry
probe_attempts == max_cf_retries + 1

\* test_connection_with_retry: one iteration of its loop, up to the first
\* suspension; past the last iteration it returns False to start_crawler
test_connection_attempt(s, c, k) ==
    LET s1 == [s EXCEPT !.call[c].attempt = k, !.call[c].checks = @ + 1]
        e == ensure_fresh_cookies(s1)
    IN  IF k >= probe_attempts THEN start_crawler_return(s, c, "connection_failed", <<>>)
        ELSE IF e = "acquire" THEN Suspend(s1, c, "acq_probe")
        ELSE IF e = "raise"
             THEN IF k < max_cf_retries THEN sleep_probe(s1, c, cf_retry_delay)
                  ELSE start_crawler_return(s1, c, "connection_failed", <<>>)
        ELSE [s1 EXCEPT !.crawler = TRUE, !.call[c].pc = "probe",
                        !.call[c].fetched = TRUE]

\* test_connection_with_retry, lines 200-209, with the re-acquisition after
\* the last failed probe too.
probe_failed_reacquiring_always(s, c) == Suspend(s, c, "acq_reprobe")

\* test_connection_with_retry, lines 200-204: test_connection returned False
\* in iteration call[c].attempt; re-acquire unless this was the last iteration
probe_failed(s, c) ==
    IF s.call[c].attempt < max_cf_retries THEN Suspend(s, c, "acq_reprobe")
    ELSE test_connection_attempt(s, c, s.call[c].attempt + 1)

\* test_connection_with_retry, lines 206-209, with the wait before the first
\* retry too.
reacquired_always_waiting(s, c) == sleep_probe(s, c, cf_retry_delay)

\* test_connection_with_retry, lines 206-209: collect_cookies_auto is back in
\* iteration call[c].attempt; sleep cf_retry_delay unless this was iteration 0
reacquired(s, c) ==
    IF s.call[c].attempt > 0 THEN sleep_probe(s, c, cf_retry_delay)
    ELSE test_connection_attempt(s, c, s.call[c].attempt + 1)

\* ------------------------------------------------------------------ start_crawler

\* NewCrawlerManager.start_crawler up to its first suspension
start_crawler(s, c) ==
    IF s.is_running
    THEN [s EXCEPT !.call[c] = DoneFrame(s.call[c],
                                   [success |-> FALSE, message |-> "already_running",
                                    count |-> 0])]
    ELSE LET s1 == update_status([s EXCEPT !.is_running = TRUE, !.call[c].checks = 1],
                                 "starting")
             e == ensure_fresh_cookies(s1)
         IN  IF e = "acquire" THEN Suspend(s1, c, "acq_start")
             ELSE IF e = "raise" THEN start_crawler_return(s1, c, "exception", <<>>)
             ELSE test_connection_attempt(s1, c, 0)

\* NewCrawlerManager.stop_crawler (with NewCrawlerController.stop_crawler).
\* stopped remembers, for the crawl_single_theme invocations in their loops,
\* that the stop flag was set during them.
stop_crawler(s) ==
    [update_status(s, "stopped") EXCEPT
              !.crawler_is_running = IF s.crawler THEN FALSE ELSE @,
              !.is_running = FALSE,
              !.call = [c \in Callers |->
                           IF s.crawler /\ s.call[c].pc \in {"list", "sleep_page", "detail", "sleep_detail"}
                           THEN [s.call[c] EXCEPT !.stopped = TRUE]
                           ELSE s.call[c]]]

\* ------------------------------------------------------------------ persistence

\* saves is the history of the save_to_database calls of one crawl_single_theme
\* invocation: the thread and what became of it.
Saved(s, c, thread, outcome) ==
    [s EXCEPT !.call[c].saves = Append(@, [tid |-> thread.tid, outcome |-> outcome])]

save_to_database_no_exists_check(s, c, thread, db_ok) ==
    IF db_ok
    THEN Saved([s EXCEPT !.store[thread.tid] = Append(@, thread)], c, thread, "stored")
    ELSE Saved(s, c, thread, "failed")

\* NewCrawlerController.save_to_database: skip a thread whose magnet_hash (its
\* tid) has a row, else add and commit; db_ok = FALSE is a commit that raises,
\* which the method logs and swallows
save_to_database(s, c, thread, db_ok) ==
    IF s.store[thread.tid] # <<>> THEN Saved(s, c, thread, "skipped")
    ELSE IF db_ok
         THEN Saved([s EXCEPT !.store[thread.tid] = Append(@, thread)], c, thread, "stored")
         ELSE Saved(s, c, thread, "failed")

save_and_append_stored_only(s, c, thread, db_ok) ==
    LET s1 == save_to_database(s, c, thread, db_ok)
    IN  IF s1.call[c].saves[Len(s1.call[c].saves)].outcome = "stored"
        THEN [s1 EXCEPT !.call[c].detailed = Append(@, thread)]
        ELSE s1

\* crawl_thread_details, lines 898-903: thread.update(detail) has given thread
\* its magnets; save it, then append it to detailed_threads
save_and_append(s, c, thread, db_ok) ==
    LET s1 == save_to_database(s, c, thread, db_ok)
    IN  [s1 EXCEPT !.call[c].detailed = Append(@, thread)]

\* crawl_thread_details with continue in the branch of a detail that failed.
detail_done_continuing(s, c, response, db_ok) ==
    LET f == s.call[c]
        detail == parse_thread_detail(response)
        s1 == [s EXCEPT !.call[c].response = IF detail = None THEN response ELSE None,
                        !.call[c].detail = detail]
    IN  IF detail = None THEN detail_loop(s1, c, f.i + 1)
        ELSE Suspend(save_and_append(s1, c,
                         [tid |-> f.threads[f.i].tid, magnets |-> detail.magnets], db_ok),
                     c, "sleep_detail")

\* crawl_thread_details: the rest of an iteration once the detail request came
\* back, up to the sleep that ends it (a detail with no magnets skips the sleep).
\* Of the responses the frame remembers the one that gave no record.
detail_done(s, c, response, db_ok) ==
    LET f == s.call[c]
        detail == parse_thread_detail(response)
        s1 == [s EXCEPT !.call[c].response = IF detail = None THEN response ELSE None,
                        !.call[c].detail = detail]
    IN  IF detail = None THEN Suspend(s1, c, "sleep_detail")
        ELSE IF detail.magnets = {} THEN detail_loop(s1, c, f.i + 1)
        ELSE Suspend(save_and_append(s1, c,
                         [tid |-> f.threads[f.i].tid, magnets |-> detail.magnets], db_ok),
                     c, "sleep_detail")

\* ------------------------------------------------------------------ next run

\* A text is the sequence of its characters; a character outside printable
\* ASCII is written as its code point ("U+5E7F").
Digits == {"0", "1", "2", "3", "4", "5", "6", "7", "8", "9"}

\* The longest run of digits of s from index i on: (\d+)
RECURSIVE digits_from(_, _)
digits_from(s, i) ==
    IF i <= Len(s) /\ s[i] \in Digits THEN <<s[i]>> \o digits_from(s, i + 1) ELSE <<>>

\* One past the last UTC instant at which _calculate_next_run is tried.
\* Instants are minutes since 00:00 UTC of one day; what they lose of the
\* seconds plays no part, as cron times are whole minutes.
MaxInstant == 130

FirstInstant == 100

Instants == FirstInstant..MaxInstant

\* A cron expression matches at least once in so many minutes (no expression
\* here restricts the day).
Horizon == 1440

\* pytz.timezone(name).utcoffset: minutes east of UTC; none of these zones has
\* daylight saving time.  Any other name raises UnknownTimeZoneError.
utcoffsets ==
    [n \in {"UTC", "Asia/Shanghai", "Asia/Kolkata"} |->
        IF n = "UTC" THEN 0 ELSE IF n = "Asia/Shanghai" THEN 480 ELSE 330]

TimezoneNames == DOMAIN utcoffsets \cup {"Mars/Olympus"}

\* The decimal number a string of digits spells.
RECURSIVE to_int(_)
to_int(s) ==
    IF s = <<>> THEN 0
    ELSE 10 * to_int(SubSeq(s, 1, Len(s) - 1))
         + (CHOOSE d \in 0..9 : ToString(d) = s[Len(s)])

\* croniter's reading of one field with values lo..hi, "*", "*/n" or a number:
\* the values it names.  No value stands for CroniterBadCronError.
cron_field(s, lo, hi) ==
    IF s = <<"*">> THEN lo..hi
    ELSE IF Len(s) > 2 /\ SubSeq(s, 1, 2) = <<"*", "/">>
              /\ digits_from(s, 3) = SubSeq(s, 3, Len(s))
         THEN LET n == to_int(SubSeq(s, 3, Len(s))) IN
              IF n = 0 THEN {} ELSE {v \in lo..hi : (v - lo) % n = 0}
    ELSE IF s # <<>> /\ digits_from(s, 1) = s
         THEN {to_int(s)} \cap lo..hi
    ELSE {}

\* croniter(expr_format): five fields, of which the day, month and weekday are
\* "*" here.  None stands for the exception it raises.
croniter(cron_expression) ==
    IF Len(cron_expression) # 5 THEN None
    ELSE LET minute == cron_field(cron_expression[1], 0, 59)
             hour == cron_field(cron_expression[2], 0, 23)
         IN  IF minute = {} \/ hour = {}
                \/ \E i \in 3..5 : cron_field(cron_expression[i], 1, 7) = {}
             THEN None
             ELSE [minute |-> minute, hour |-> hour]

\* The wall-clock minute w (minutes since midnight of the first day) is one the
\* expression names.
cron_matches(cron, w) == (w % 60) \in cron.minute /\ ((w \div 60) % 24) \in cron.hour

\* croniter.get_next from the wall-clock minute start: the first match after it
get_next(cron, start) ==
    CHOOSE w \in (start + 1)..(start + Horizon) :
        /\ cron_matches(cron, w)
        /\ \A v \in (start + 1)..(w - 1) : ~cron_matches(cron, v)

\* croniter.get_next taken from start itself (start counted as a match).
get_next_from_start(cron, start) ==
    CHOOSE w \in start..(start + Horizon) :
        /\ cron_matches(cron, w)
        /\ \A v \in start..(w - 1) : ~cron_matches(cron, v)

\* A datetime: its wall-clock minute and, unless it is naive, its UTC offset.
Aware(wall, offset) == [wall |-> wall, naive |-> FALSE, utcoffset |-> offset]
Naive(wall) == [wall |-> wall, naive |-> TRUE, utcoffset |-> 0]

\* _calculate_next_run with get_next taken from the evaluation time itself.
calculate_next_run_not_after(cron_expression, timezone, utcnow, server) ==
    IF timezone \notin DOMAIN utcoffsets \/ croniter(cron_expression) = None
    THEN Naive(utcnow + server + 60)
    ELSE LET now == utcnow + utcoffsets[timezone] IN
         Aware(get_next_from_start(croniter(cron_expression), now), utcoffsets[timezone])

\* SchedulerManager._calculate_next_run, called at the UTC instant utcnow on a
\* server whose local time is server minutes east of UTC
calculate_next_run(cron_expression, timezone, utcnow, server) ==
    IF timezone \notin DOMAIN utcoffsets \/ croniter(cron_expression) = None
    THEN Naive(utcnow + server + 60)
    ELSE LET now == utcnow + utcoffsets[timezone] IN
         Aware(get_next(croniter(cron_expression), now), utcoffsets[timezone])

\* Cron expressions, field by field, each field a string of characters: every
\* five minutes, every fifteen, hourly, daily at 10:30, and three that
\* croniter rejects.
Cron(minute, hour) == <<minute, hour, <<"*">>, <<"*">>, <<"*">>>>

CronExpressions ==
    {Cron(<<"*", "/", "5">>, <<"*">>),
     Cron(<<"*", "/", "1", "5">>, <<"*">>),
     Cron(<<"0">>, <<"*">>),
     Cron(<<"3", "0">>, <<"1", "0">>),
     Cron(<<"6", "1">>, <<"*">>),
     Cron(<<"*", "/", "0">>, <<"*">>),
     <<<<"*", "/", "5">>, <<"*">>, <<"*">>, <<"*">>>>}

\* Offsets of the server's local time.
ServerOffsets == {0, 480}

NextRunRequests ==
    [fn : {"_calculate_next_run"}, cron_expression : CronExpressions,
     timezone : TimezoneNames, utcnow : Instants, server : ServerOffsets]

ApplyCalculateNextRun ==
    /\ applied = "none"
    /\ input.fn = "_calculate_next_run"
    /\ applied' = input.fn
    /\ output' = calculate_next_run(input.cron_expression, input.timezone,
                                    input.utcnow, input.server)
    /\ UNCHANGED input
    /\ UNCHANGED outside_pure

\* ------------------------------------------------------------------ scheduler state

\* Scheduled tasks in the table.
MaxTasks == 1

\* run_task coroutines that exist at one time.
MaxInvocations == 2

\* start_scheduler coroutines that exist at one time.
MaxLoops == 2

\* Runs of one task.
MaxRuns == 1

TaskIds == 1..MaxTasks
Handles == 1..MaxInvocations
Loops == 1..MaxLoops

\* The timezone column's default, the instants at which create_task and
\* run_task compute next_run, and the server's offset from UTC.
TaskTimezone == "Asia/Shanghai"
CreateInstant == FirstInstant
RunInstant == FirstInstant + 23
ServerOffset == 0

\* The cron expressions of the tasks: one that evaluates, one that does not
\* (create_task stores either).
TaskCrons == {Cron(<<"*", "/", "5">>, <<"*">>), Cron(<<"*", "/", "0">>, <<"*">>)}

\* A row of scheduled_tasks as create_task leaves it (enabled, counters at
\* their column defaults); due stands for next_run <= utcnow().
NewTask(cron_expression) ==
    [exists |-> TRUE, due |-> FALSE, run_count |-> 0, success_count |-> 0, error_count |-> 0,
     cron_expression |-> cron_expression,
     next_run |-> calculate_next_run(cron_expression, TaskTimezone, CreateInstant, ServerOffset)]

\* The row after delete_task.
DeletedTask ==
    [exists |-> FALSE, due |-> FALSE, run_count |-> 0, success_count |-> 0, error_count |-> 0,
     cron_expression |-> <<>>, next_run |-> None]

NoInvocation == [pc |-> "free", task |-> 0, origin |-> "none", cancel |-> FALSE]

\* No coroutine.
NoInvocations == [h \in {} |-> NoInvocation]

\* The frame of handle h among the coroutines inv.
frame(inv, h) == IF h \in DOMAIN inv THEN inv[h] ELSE NoInvocation

\* inv with the frame fr for handle h; a free handle is no coroutine.
put(inv, h, fr) ==
    IF fr = NoInvocation THEN [g \in DOMAIN inv \ {h} |-> inv[g]]
    ELSE [g \in DOMAIN inv \cup {h} |-> IF g = h THEN fr ELSE inv[g]]

\* A table without entries.
Empty == [k \in {} |-> 0]

\* The entry of the table f for the key k; d where it has none.
at(f, k, d) == IF k \in DOMAIN f THEN f[k] ELSE d

\* The table f with the entry v for the key k; the value d is no entry.
with(f, k, v, d) ==
    IF v = d THEN [x \in DOMAIN f \ {k} |-> f[x]]
    ELSE [x \in DOMAIN f \cup {k} |-> IF x = k THEN v ELSE f[x]]

\* The row of task t (DeletedTask: there is none), the handle running_tasks
\* holds for it (0: no entry), and where the polling loop l is.
row(q, t) == at(q.tasks, t, DeletedTask)
handle_of(q, t) == at(q.running_tasks, t, 0)
loop(p, l) == at(p, l, "idle")

\* SchedulerManager.__init__ on an empty table: no task, no coroutine
SchedulerInit ==
    /\ scheduler_running = FALSE
    /\ running_tasks = Empty
    /\ tasks = Empty
    /\ invocations = NoInvocations
    /\ polling = Empty

\* ------------------------------------------------------------------ fetch state

\* Largest max_concurrent tried (the routes accept 1..20).
MaxConcurrent == 2

\* The HTTP requests of one crawl: the probe of test_connection, the two URL
\* templates of one list page, one detail page.
Fetches == {"probe", "list1", "list2", "detail"}

\* A request that was not issued.
NoFetch == [pc |-> "none", outcome |-> "none", value |-> "none"]

\* No request issued.
NoFetches == [f \in {} |-> NoFetch]

\* The frame of fetch f among the requests fs.
fetch(fs, f) == IF f \in DOMAIN fs THEN fs[f] ELSE NoFetch

\* CrawlerHttpClient.__init__ with max_concurrent = n, nothing requested yet
FetchIdle(n) ==
    /\ max_concurrent = n
    /\ semaphore = n
    /\ http2 = FALSE
    /\ fetches = NoFetches
    /\ phase = "idle"

\* ------------------------------------------------------------------ pure function state

\* No pure function under test.
PureIdle ==
    /\ applied = "none"
    /\ input = None
    /\ output = None

\* ------------------------------------------------------------------ cookie file state

\* No cookie file, no write under way, nothing loaded.
CookieFileIdle ==
    /\ jar_file = None
    /\ jar_writer = [pc |-> "idle", cookies |-> <<>>, previous |-> None]
    /\ jar_loaded = [loads |-> 0, cookies |-> {}, raised |-> FALSE]

\* ------------------------------------------------------------------ actions

Init ==
    /\ SchedulerInit
    /\ FetchIdle(1)
    /\ PureIdle
    /\ CookieFileIdle
    /\ is_running = FALSE
    /\ crawler = FALSE
    /\ crawler_is_running = FALSE
    /\ refresh_due = TRUE
    /\ cookies_file \in {"missing", "ok"}
    /\ store = [t \in TIDs |-> <<>>]
    /\ forum = 1
    /\ call = [c \in Callers |-> IdleFrame]
    /\ status_callback = FALSE
    /\ crawler_status = FALSE
    /\ keywords = None

\* What the world outside may have done since the manager last looked: the
\* refresh interval may have run out, and the cookie file may have been removed,
\* damaged or made unreachable.  Both are read only by ensure_fresh_cookies, so
\* the change is taken at the steps that call it after a suspension.
Observed ==
    {[S EXCEPT !.cookies_file = f, !.refresh_due = d] :
        f \in {cookies_file, "missing", "corrupt", "noaccess"},
        d \in {refresh_due, TRUE}}

\* start_crawler of routes/crawler_routes.py, lines 81-86: the route registers
\* its callbacks with the manager before it starts the crawl; run_task of
\* scheduler_manager.py registers none
set_callbacks(s, c) ==
    IF c = "api" THEN [s EXCEPT !.status_callback = TRUE] ELSE s

\* A caller invokes start_crawler.
Call(c) ==
    /\ call[c].pc = "idle"
    /\ \E s \in Observed : Commit(start_crawler(set_callbacks(s, c), c))

\* The caller takes the result; its frame is gone.
Return(c) ==
    /\ call[c].pc = "done"
    /\ call' = [call EXCEPT ![c] = IdleFrame]
    /\ UNCHANGED <<is_running, crawler, crawler_is_running, refresh_due, cookies_file,
                   store, forum, status_callback, crawler_status, keywords>>
    /\ UNCHANGED outside_crawler

\* POST /stop calls manager.stop_crawler().
Stop ==
    /\ Commit(stop_crawler(S))

\* collect_cookies_auto awaited by ensure_fresh_cookies in start_crawler comes back.
AcqStartDone(c) ==
    /\ call[c].pc = "acq_start"
    /\ \E o \in Acquisitions :
          LET s1 == collect_cookies_auto(S, o) IN
          Commit(IF collected(S, o) THEN test_connection_attempt(s1, c, 0)
                 ELSE start_crawler_return(s1, c, "no_cookies", <<>>))

\* ... awaited by ensure_fresh_cookies in test_connection_with_retry
AcqProbeDone(c) ==
    /\ call[c].pc = "acq_probe"
    /\ \E o \in Acquisitions :
          LET s1 == collect_cookies_auto(S, o) IN
          Commit(IF collected(S, o)
                 THEN [s1 EXCEPT !.crawler = TRUE, !.call[c].pc = "probe",
                                 !.call[c].fetched = TRUE]
                 ELSE start_crawler_return(s1, c, "connection_failed", <<>>))

\* crawler.test_connection comes back.  checks counts the ensure_fresh_cookies
\* calls of an invocation none of whose probes has succeeded; it is dropped
\* when one does, and so is slept.
ProbeDone(c) ==
    /\ call[c].pc = "probe"
    /\ \E ok \in BOOLEAN, s \in Observed :
          Commit(IF ok THEN crawl_attempt(update_status([s EXCEPT !.call[c].checks = 0,
                                                                  !.call[c].slept = 0],
                                                        "crawling"), c, 0)
                 ELSE probe_failed(S, c))

\* collect_cookies_auto after a failed probe comes back; its result is not used
AcqReprobeDone(c) ==
    /\ call[c].pc = "acq_reprobe"
    /\ \E o \in Acquisitions :
          Commit(reacquired(collect_cookies_auto(S, o), c))

\* asyncio.sleep(cf_retry_delay) in test_connection_with_retry is over
SleepProbeDone(c) ==
    /\ call[c].pc = "sleep_probe"
    /\ \E s \in Observed : Commit(test_connection_attempt(s, c, call[c].attempt + 1))

\* collect_cookies_auto awaited by ensure_fresh_cookies in crawl_with_retry
AcqCrawlDone(c) ==
    /\ call[c].pc = "acq_crawl"
    /\ \E o \in Acquisitions :
          LET s1 == collect_cookies_auto(S, o) IN
          Commit(IF collected(S, o) THEN crawl_single_theme(s1, c)
                 ELSE start_crawler_return(s1, c, "completed", <<>>))

\* What parse_list_page can come back with: the page's links, nothing (both
\* requests failed), or an Exception (urljoin rejects an href of the page).
ListOutcomes == {"threads", "none", "raised"}

\* parse_list_page comes back: both templates' links, deduplicated, or none,
\* or it raises
ListDone(c) ==
    /\ call[c].pc = "list"
    /\ \E outcome \in ListOutcomes :
          Commit(IF outcome = "raised" THEN page_except(S, c)
                 ELSE page_done(S, c, IF outcome = "threads"
                                      THEN deduplicate_threads(PageLinks(forum, call[c].page))
                                      ELSE <<>>))

\* asyncio.sleep(delay_between_pages) is over
SleepPageDone(c) ==
    /\ call[c].pc = "sleep_page"
    /\ Commit(page_loop(S, c, call[c].page + 1))

\* the detail request of parse_thread_detail comes back
DetailDone(c) ==
    /\ call[c].pc = "detail"
    /\ \E response \in DetailResponses, db_ok \in BOOLEAN :
          Commit(detail_done(S, c, response, db_ok))

\* asyncio.sleep(1) is over; the iteration's locals are gone
SleepDetailDone(c) ==
    /\ call[c].pc = "sleep_detail"
    /\ Commit(detail_loop([S EXCEPT !.call[c].detail = None, !.call[c].response = None],
                          c, call[c].i + 1))

\* close_client in crawl_single_theme's finally is over: is_running = False,
\* and crawl_with_retry gets detailed_threads.  If close_client raised, the
\* assignment is skipped and crawl_with_retry gets the exception.
CloseDone(c) ==
    /\ call[c].pc = "closing"
    /\ \E closed \in BOOLEAN :
          Commit(IF closed
                 THEN after_crawl([S EXCEPT !.crawler_is_running = FALSE], c, call[c].detailed)
                 ELSE crawl_except(S, c))

\* collect_cookies_auto after an empty crawl comes back; its result is not used
AcqRetryDone(c) ==
    /\ call[c].pc = "acq_retry"
    /\ \E o \in Acquisitions :
          Commit(Suspend(collect_cookies_auto(S, o), c, "sleep_retry"))

\* collect_cookies_auto in crawl_with_retry's except clause comes back; its
\* result is not used
AcqExceptDone(c) ==
    /\ call[c].pc = "acq_except"
    /\ \E o \in Acquisitions :
          Commit(Suspend(collect_cookies_auto(S, o), c, "sleep_retry"))

\* asyncio.sleep(cf_retry_delay) in crawl_with_retry is over
SleepRetryDone(c) ==
    /\ call[c].pc = "sleep_retry"
    /\ \E s \in Observed : Commit(crawl_attempt(s, c, call[c].attempt + 1))

NextOf(C) ==
    \/ \E c \in C : Call(c)
    \/ \E c \in C : Return(c)
    \/ Stop
    \/ \E c \in C : AcqStartDone(c)
    \/ \E c \in C : AcqProbeDone(c)
    \/ \E c \in C : ProbeDone(c)
    \/ \E c \in C : AcqReprobeDone(c)
    \/ \E c \in C : SleepProbeDone(c)
    \/ \E c \in C : AcqCrawlDone(c)
    \/ \E c \in C : ListDone(c)
    \/ \E c \in C : SleepPageDone(c)
    \/ \E c \in C : DetailDone(c)
    \/ \E c \in C : SleepDetailDone(c)
    \/ \E c \in C : CloseDone(c)
    \/ \E c \in C : AcqRetryDone(c)
    \/ \E c \in C : AcqExceptDone(c)
    \/ \E c \in C : SleepRetryDone(c)

Next == NextOf(Callers)

\* Both callers, on a forum of one thread, with no keywords.
Spec == Init /\ [][Next]_vars

\* One caller, on forums of every size up to MaxPage threads, with and
\* without keywords.
InitOneCaller ==
    /\ SchedulerInit
    /\ FetchIdle(1)
    /\ PureIdle
    /\ CookieFileIdle
    /\ is_running = FALSE
    /\ crawler = FALSE
    /\ crawler_is_running = FALSE
    /\ refresh_due = TRUE
    /\ cookies_file \in {"missing", "ok"}
    /\ store = [t \in TIDs |-> <<>>]
    /\ forum \in 1..MaxPage
    /\ call = [c \in Callers |-> IdleFrame]
    /\ status_callback = FALSE
    /\ crawler_status = FALSE
    /\ keywords \in Keywords

NextOneCaller == NextOf({"api"})

SpecOneCaller == InitOneCaller /\ [][NextOneCaller]_vars

\* ================================================================== scheduler

\* The crawl subsystem before anything has called it.
CrawlerIdle ==
    /\ is_running = FALSE
    /\ crawler = FALSE
    /\ crawler_is_running = FALSE
    /\ refresh_due = TRUE
    /\ cookies_file = "missing"
    /\ store = [t \in TIDs |-> <<>>]
    /\ forum = 1
    /\ call = [c \in Callers |-> IdleFrame]
    /\ status_callback = FALSE
    /\ crawler_status = FALSE
    /\ keywords = None

Q ==
    [scheduler_running |-> scheduler_running, running_tasks |-> running_tasks,
     tasks |-> tasks, invocations |-> invocations, polling |-> polling]

CommitQ(q) ==
    /\ scheduler_running' = q.scheduler_running
    /\ running_tasks' = q.running_tasks
    /\ tasks' = q.tasks
    /\ invocations' = q.invocations
    /\ polling' = q.polling
    /\ UNCHANGED outside_scheduler

\* asyncio.Task.done() of the handle running_tasks holds for task t
handle_done(q, t) == frame(q.invocations, handle_of(q, t)).pc = "done"

\* The handles no coroutine and no running_tasks entry uses.
FreeHandles(q) == {h \in Handles : frame(q.invocations, h).pc = "free"}

LowestFree(q) == CHOOSE h \in FreeHandles(q) : \A g \in FreeHandles(q) : h <= g

\* start_scheduler, lines 216-218: the task is due and has no entry in
\* running_tasks, or one whose handle is done.  Every task is enabled.
to_launch(q, t) ==
    /\ row(q, t).exists
    /\ row(q, t).due
    /\ handle_of(q, t) = 0 \/ handle_done(q, t)

\* start_scheduler, line 221: create_task(run_task(task)) replaces the entry;
\* a finished handle it replaces is garbage
launch(q, t) ==
    LET old == handle_of(q, t)
        q1 == IF old # 0 /\ frame(q.invocations, old).pc = "done"
              THEN [q EXCEPT !.invocations = put(@, old, NoInvocation)] ELSE q
        h == LowestFree(q1)
    IN  [q1 EXCEPT !.invocations = put(@, h, [pc |-> "created", task |-> t, origin |-> "poll",
                                              cancel |-> FALSE]),
                   !.running_tasks = with(@, t, h, 0)]

\* start_scheduler, lines 214-221: the loop over the enabled tasks, from task t on
RECURSIVE launch_due(_, _)
launch_due(q, t) ==
    IF t > MaxTasks THEN q
    ELSE launch_due(IF to_launch(q, t) THEN launch(q, t) ELSE q, t + 1)

\* start_scheduler, lines 224-230: drop the entries whose handle is done
cleanup(q) ==
    [q EXCEPT !.running_tasks = [t \in {u \in DOMAIN q.running_tasks : ~handle_done(q, u)} |->
                                    q.running_tasks[t]],
              !.invocations = [h \in {g \in DOMAIN q.invocations : q.invocations[g].pc # "done"} |->
                                  q.invocations[h]]]

\* run_task, lines 155-169: up to the await of start_crawler
run_task(q, h) ==
    LET t == frame(q.invocations, h).task IN
    [q EXCEPT !.invocations = put(@, h, [frame(@, h) EXCEPT !.pc = "crawling"]),
              !.tasks = IF row(q, t).exists THEN [@ EXCEPT ![t].run_count = @ + 1] ELSE @]

\* The run_task coroutine of handle h is over: its handle is done for as long
\* as running_tasks holds it.
finished(q, h) ==
    IF \E t \in TaskIds : handle_of(q, t) = h
    THEN [q EXCEPT !.invocations = put(@, h, [frame(@, h) EXCEPT !.pc = "done", !.cancel = FALSE])]
    ELSE [q EXCEPT !.invocations = put(@, h, NoInvocation)]

Outcomes == {"success", "failure", "exception"}

\* run_task, lines 177-198: start_crawler came back with a result, or
\* something raised an Exception before the result was recorded
run_task_result(q, h, outcome) ==
    LET t == frame(q.invocations, h).task
        next_run == calculate_next_run(row(q, t).cron_expression, TaskTimezone,
                                       RunInstant, ServerOffset)
        q1 == IF ~row(q, t).exists THEN q
              ELSE IF outcome = "success"
                   THEN [q EXCEPT !.tasks[t].success_count = @ + 1, !.tasks[t].due = FALSE,
                                  !.tasks[t].next_run = next_run]
                   ELSE [q EXCEPT !.tasks[t].error_count = @ + 1, !.tasks[t].due = FALSE,
                                  !.tasks[t].next_run = next_run]
    IN  finished(q1, h)

\* asyncio.Task.cancel() on handle h
cancel(q, h) ==
    IF frame(q.invocations, h).pc = "done" THEN [q EXCEPT !.invocations = put(@, h, NoInvocation)]
    ELSE [q EXCEPT !.invocations = put(@, h, [frame(@, h) EXCEPT !.cancel = TRUE])]

RECURSIVE cancel_all(_, _)
cancel_all(q, t) ==
    IF t > MaxTasks THEN q
    ELSE cancel_all(IF handle_of(q, t) # 0 THEN cancel(q, handle_of(q, t)) ELSE q, t + 1)

\* SchedulerManager.stop_scheduler
stop_scheduler(q) ==
    [cancel_all([q EXCEPT !.scheduler_running = FALSE], 1)
        EXCEPT !.running_tasks = Empty]

\* SchedulerManager.delete_task
delete_task(q, t) ==
    LET q1 == IF handle_of(q, t) # 0 THEN cancel(q, handle_of(q, t)) ELSE q
    IN  [q1 EXCEPT !.running_tasks = with(@, t, 0, 0), !.tasks = with(@, t, DeletedTask, DeletedTask)]

\* The event loop's thread is inside a blocking database call of the polling
\* loop: no coroutine runs, while the thread pool (the stop and delete
\* endpoints) does.
LoopBlocked == \E l \in Loops : loop(polling, l) = "querying"

\* POST /api/scheduler/start awaits start_scheduler: up to get_enabled_tasks
StartScheduler(l) ==
    /\ ~LoopBlocked
    /\ loop(polling, l) = "idle"
    /\ CommitQ(IF scheduler_running THEN Q
               ELSE [Q EXCEPT !.scheduler_running = TRUE, !.polling = with(@, l, "querying", "idle")])

\* get_enabled_tasks came back: launch what is due, clean up, sleep
PollTasks(l) ==
    /\ loop(polling, l) = "querying"
    /\ Cardinality({t \in TaskIds : to_launch(Q, t) /\ handle_of(Q, t) = 0})
          <= Cardinality(FreeHandles(Q))
    /\ \A t \in TaskIds : to_launch(Q, t) => row(Q, t).run_count < MaxRuns
    /\ CommitQ([cleanup(launch_due(Q, 1)) EXCEPT !.polling = with(@, l, "sleeping", "idle")])

\* An Exception from the iteration leaves start_scheduler: the coroutine is over.
poll_except_reraising(q, l) == [q EXCEPT !.polling = with(@, l, "idle", "idle")]

\* start_scheduler, lines 235-237: an Exception from the iteration is logged
\* and the loop sleeps.
poll_except(q, l) == [q EXCEPT !.polling = with(@, l, "sleeping_after_error", "idle")]

\* get_enabled_tasks raises (the database is away)
PollFailed(l) ==
    /\ loop(polling, l) = "querying"
    /\ CommitQ(poll_except(Q, l))

\* asyncio.sleep(60) of the polling loop is over: the while condition
PollWake(l) ==
    /\ ~LoopBlocked
    /\ loop(polling, l) \in {"sleeping", "sleeping_after_error"}
    /\ CommitQ([Q EXCEPT !.polling = with(@, l, IF scheduler_running THEN "querying" ELSE "idle", "idle")])

\* POST /api/scheduler/stop, in a thread of the pool
StopScheduler ==
    /\ CommitQ(stop_scheduler(Q))

\* DELETE /api/scheduler/tasks/{id}, in a thread of the pool
DeleteTask(t) ==
    /\ row(Q, t).exists
    /\ CommitQ(delete_task(Q, t))

\* The clock passes next_run.
Due(t) ==
    /\ row(Q, t).exists
    /\ ~row(Q, t).due
    /\ tasks' = [tasks EXCEPT ![t].due = TRUE]
    /\ UNCHANGED <<scheduler_running, running_tasks, invocations, polling>>
    /\ UNCHANGED outside_scheduler

\* POST /api/scheduler/tasks/{id}/run awaits run_task_now, which awaits run_task
RunTaskNow(t) ==
    /\ ~LoopBlocked
    /\ row(Q, t).exists
    /\ row(Q, t).run_count < MaxRuns
    /\ FreeHandles(Q) # {}
    /\ LET h == LowestFree(Q) IN
       CommitQ(run_task([Q EXCEPT !.invocations =
                            put(@, h, [pc |-> "created", task |-> t, origin |-> "manual",
                                       cancel |-> FALSE])], h))

\* The event loop takes up a created run_task; one cancelled before is never run.
TaskStart(h) ==
    /\ ~LoopBlocked
    /\ frame(invocations, h).pc = "created"
    /\ CommitQ(IF frame(invocations, h).cancel THEN finished(Q, h) ELSE run_task(Q, h))

\* start_crawler comes back to run_task, or an Exception is raised in it
TaskDone(h) ==
    /\ ~LoopBlocked
    /\ frame(invocations, h).pc = "crawling"
    /\ ~frame(invocations, h).cancel
    /\ \E outcome \in Outcomes : CommitQ(run_task_result(Q, h, outcome))

\* CancelledError reaches run_task at its await; it is no Exception, so the
\* except clause does not run
TaskCancelled(h) ==
    /\ ~LoopBlocked
    /\ frame(invocations, h).pc = "crawling"
    /\ frame(invocations, h).cancel
    /\ CommitQ(finished(Q, h))

NextScheduler ==
    \/ \E l \in Loops : StartScheduler(l)
    \/ \E l \in Loops : PollTasks(l)
    \/ \E l \in Loops : PollFailed(l)
    \/ \E l \in Loops : PollWake(l)
    \/ StopScheduler
    \/ \E t \in TaskIds : DeleteTask(t)
    \/ \E t \in TaskIds : Due(t)
    \/ \E t \in TaskIds : RunTaskNow(t)
    \/ \E h \in Handles : TaskStart(h)
    \/ \E h \in Handles : TaskDone(h)
    \/ \E h \in Handles : TaskCancelled(h)

\* The tasks are in the table (create_task) before anything starts.
InitScheduler ==
    /\ scheduler_running = FALSE
    /\ running_tasks = Empty
    /\ \E crons \in [TaskIds -> TaskCrons] : tasks = [t \in TaskIds |-> NewTask(crons[t])]
    /\ invocations = NoInvocations
    /\ polling = Empty
    /\ CrawlerIdle /\ FetchIdle(1) /\ PureIdle /\ CookieFileIdle

\* The scheduler alone: what start_crawler does is its result.
SpecScheduler == InitScheduler /\ [][NextScheduler]_scheduler_vars

\* ================================================================== fetches

\* test_connection opens a client of its own; the crawl opens one and uses it
\* for the list pages and the detail pages.
Client(f) == IF f = "probe" THEN "test_connection" ELSE "crawl_single_theme"

\* The requests of f's client that are on the wire.
OnTheWire(fs, f) == {g \in DOMAIN fs : Client(g) = Client(f) /\ fs[g].pc = "in_flight"}

\* create_client: httpx.Limits(max_connections=max_concurrent), http2=True.
\* An HTTP/1.1 connection carries one request at a time; an HTTP/2 connection
\* carries the requests of the client together as streams.
pool_admits(fs, f) == http2 \/ Cardinality(OnTheWire(fs, f)) < max_concurrent

\* What a request comes to: a response with a status, or a failure
\* (connection refused, timeout, TLS failure).
HttpOutcomes == {"200", "403", "failed"}

\* request_with_semaphore, lines 151-156: the response is returned, an exception
\* is logged and raised again.
request_with_semaphore(outcome) ==
    IF outcome = "failed" THEN [pc |-> "raised", outcome |-> outcome, value |-> "none"]
    ELSE [pc |-> "returned", outcome |-> outcome, value |-> "response"]

\* request_page, lines 339-344: the response is returned, an exception is logged
\* and None returned.
request_page(outcome) ==
    IF outcome = "failed" THEN [pc |-> "returned", outcome |-> outcome, value |-> "None"]
    ELSE [pc |-> "returned", outcome |-> outcome, value |-> "response"]

\* parse_thread_detail, lines 363-367 and 408-410: a failure of client.get and
\* a status other than 200 both give None.
parse_thread_detail_fetch(outcome) ==
    IF outcome = "200" THEN [pc |-> "returned", outcome |-> outcome, value |-> "response"]
    ELSE [pc |-> "returned", outcome |-> outcome, value |-> "None"]

Over(fr) == fr.pc \in {"returned", "raised"}

\* test_connection: create_client, then request_with_semaphore, which first
\* waits for a slot of the semaphore.
TestConnection ==
    /\ phase = "idle"
    /\ phase' = "probe"
    /\ fetches' = [f \in {"probe"} |-> [NoFetch EXCEPT !.pc = "waiting"]]
    /\ UNCHANGED <<max_concurrent, semaphore, http2>>
    /\ UNCHANGED outside_fetch

\* async with self.semaphore: a slot is taken, client.get is called.
Acquire(f) ==
    /\ fetch(fetches, f).pc = "waiting"
    /\ semaphore > 0
    /\ semaphore' = semaphore - 1
    /\ fetches' = [fetches EXCEPT ![f].pc = "queued"]
    /\ UNCHANGED <<max_concurrent, http2, phase>>
    /\ UNCHANGED outside_fetch

\* client.get: the connection pool lets the request onto a connection.
Send(f) ==
    /\ fetch(fetches, f).pc = "queued"
    /\ pool_admits(fetches, f)
    /\ fetches' = [fetches EXCEPT ![f].pc = "in_flight"]
    /\ UNCHANGED <<max_concurrent, semaphore, http2, phase>>
    /\ UNCHANGED outside_fetch

\* The probe's request ends: the slot is released, test_connection gives True
\* on status 200 and False otherwise.
ProbeResponse ==
    /\ fetch(fetches, "probe").pc = "in_flight"
    /\ \E outcome \in HttpOutcomes :
        /\ fetches' = [fetches EXCEPT !["probe"] = request_with_semaphore(outcome)]
        /\ phase' = IF outcome = "200" THEN "probed" ELSE "idle"
    /\ semaphore' = semaphore + 1
    /\ UNCHANGED <<max_concurrent, http2>>
    /\ UNCHANGED outside_fetch

\* parse_list_page, lines 316-321: both template URLs are requested together
\* (asyncio.gather), each through request_page.
ParseListPage ==
    /\ phase = "probed"
    /\ phase' = "list"
    /\ fetches' = [f \in DOMAIN fetches \cup {"list1", "list2"} |->
                      IF f \in {"list1", "list2"} THEN [NoFetch EXCEPT !.pc = "queued"]
                      ELSE fetches[f]]
    /\ UNCHANGED <<max_concurrent, semaphore, http2>>
    /\ UNCHANGED outside_fetch

ListResponse(f) ==
    /\ f \in {"list1", "list2"}
    /\ fetch(fetches, f).pc = "in_flight"
    /\ \E outcome \in HttpOutcomes :
        fetches' = [fetches EXCEPT ![f] = request_page(outcome)]
    /\ UNCHANGED <<max_concurrent, semaphore, http2, phase>>
    /\ UNCHANGED outside_fetch

\* Some template gave a page with status 200 (parse_list_page, line 328).
HasThreads(fs) == \E f \in {"list1", "list2"} : fetch(fs, f).outcome = "200"

\* crawl_thread_details: the detail page of a thread the list page gave.
ParseThreadDetail ==
    /\ phase = "list"
    /\ Over(fetch(fetches, "list1")) /\ Over(fetch(fetches, "list2"))
    /\ HasThreads(fetches)
    /\ phase' = "detail"
    /\ fetches' = [f \in DOMAIN fetches \cup {"detail"} |->
                      IF f = "detail" THEN [NoFetch EXCEPT !.pc = "queued"] ELSE fetches[f]]
    /\ UNCHANGED <<max_concurrent, semaphore, http2>>
    /\ UNCHANGED outside_fetch

DetailResponse ==
    /\ fetch(fetches, "detail").pc = "in_flight"
    /\ \E outcome \in HttpOutcomes :
        fetches' = [fetches EXCEPT !["detail"] = parse_thread_detail_fetch(outcome)]
    /\ UNCHANGED <<max_concurrent, semaphore, http2, phase>>
    /\ UNCHANGED outside_fetch

\* crawl_single_theme, lines 810-813: the crawl is over, its client is closed.
CloseClient ==
    /\ \/ phase = "list" /\ Over(fetch(fetches, "list1")) /\ Over(fetch(fetches, "list2"))
                         /\ ~HasThreads(fetches)
       \/ phase = "detail" /\ Over(fetch(fetches, "detail"))
    /\ phase' = "idle"
    /\ fetches' = NoFetches
    /\ UNCHANGED <<max_concurrent, semaphore, http2>>
    /\ UNCHANGED outside_fetch

NextFetch ==
    \/ TestConnection
    \/ \E f \in Fetches : Acquire(f)
    \/ \E f \in Fetches : Send(f)
    \/ ProbeResponse
    \/ ParseListPage
    \/ \E f \in Fetches : ListResponse(f)
    \/ ParseThreadDetail
    \/ DetailResponse
    \/ CloseClient

\* One CrawlerHttpClient with any max_concurrent the routes accept, on a site
\* that does or does not negotiate HTTP/2.
InitFetch ==
    /\ SchedulerInit /\ CrawlerIdle /\ PureIdle /\ CookieFileIdle
    /\ max_concurrent \in 1..MaxConcurrent
    /\ semaphore = max_concurrent
    /\ http2 \in BOOLEAN
    /\ fetches = NoFetches
    /\ phase = "idle"

SpecFetch == InitFetch /\ [][NextFetch]_fetch_vars

\* ================================================================== pure functions

\* ------------------------------------------------------------------ proxy selection

\* A host name or address literal, written as its pieces between colons:
\* "127.0.0.1" is <<"127.0.0.1">>, "::1" is <<"", "", "1">>.
\* ipaddress.ip_address knows these literals, with the properties it gives them.
Addresses ==
    {[host |-> <<"127.0.0.1">>,    is_private |-> TRUE,  is_loopback |-> TRUE,  is_link_local |-> FALSE, is_multicast |-> FALSE],
     [host |-> <<"192.168.1.10">>, is_private |-> TRUE,  is_loopback |-> FALSE, is_link_local |-> FALSE, is_multicast |-> FALSE],
     [host |-> <<"169.254.1.1">>,  is_private |-> TRUE,  is_loopback |-> FALSE, is_link_local |-> TRUE,  is_multicast |-> FALSE],
     [host |-> <<"224.0.0.1">>,    is_private |-> FALSE, is_loopback |-> FALSE, is_link_local |-> FALSE, is_multicast |-> TRUE],
     [host |-> <<"8.8.8.8">>,      is_private |-> FALSE, is_loopback |-> FALSE, is_link_local |-> FALSE, is_multicast |-> FALSE],
     [host |-> <<"", "", "1">>,     is_private |-> TRUE,  is_loopback |-> TRUE,  is_link_local |-> FALSE, is_multicast |-> FALSE],
     [host |-> <<"fe80", "", "1">>, is_private |-> TRUE,  is_loopback |-> FALSE, is_link_local |-> TRUE,  is_multicast |-> FALSE],
     [host |-> <<"fd00", "", "1">>, is_private |-> TRUE,  is_loopback |-> FALSE, is_link_local |-> FALSE, is_multicast |-> FALSE],
     [host |-> <<"ff02", "", "1">>, is_private |-> FALSE, is_loopback |-> FALSE, is_link_local |-> FALSE, is_multicast |-> TRUE],
     [host |-> <<"2606", "4700", "", "1111">>,
                                    is_private |-> FALSE, is_loopback |-> FALSE, is_link_local |-> FALSE, is_multicast |-> FALSE]}

HostNames == {<<"example.com">>, <<"localhost">>, <<"nas.lan">>}

Hosts == {a.host : a \in Addresses} \cup HostNames

\* Target URLs: a host, alone or followed by a port (an IPv6 literal in brackets).
Urls == [hostname : Hosts, port : {"", "8080"}]

\* urlparse(target_url).hostname: the host without brackets and port
hostname(url) == url.hostname

\* ipaddress.ip_address(host): the address, or None for the ValueError
ip_address(host) ==
    IF \E a \in Addresses : a.host = host
    THEN CHOOSE a \in Addresses : a.host = host
    ELSE None

local_hostnames ==
    {<<"localhost">>, <<"127.0.0.1">>, <<"", "", "1">>, <<"local">>, <<"localdomain">>,
     <<"localhost.localdomain">>}

\* _is_lan_address, lines 35-56
is_lan_address(h) ==
    LET host == IF Len(h) > 1 THEN <<h[1]>> ELSE h    \* if ':' in host: host.split(':')[0]
        ip == ip_address(host)
    IN  IF ip # None
        THEN ip.is_private \/ ip.is_loopback \/ ip.is_link_local \/ ip.is_multicast
        ELSE host \in local_hostnames

\* The no_proxy setting, split at the commas: the default of get_setting_value
\* and a list that names a host of the local network.
NoProxySettings ==
    {<<<<"localhost">>, <<"127.0.0.1">>>>,
     <<<<"localhost">>, <<"127.0.0.1">>, <<"nas.lan">>>>}

InNoProxy(host, no_proxy) == \E i \in 1..Len(no_proxy) : no_proxy[i] = host

\* _should_use_proxy, lines 60-80
should_use_proxy(target_url, no_proxy) ==
    LET host == hostname(target_url)
    IN  IF is_lan_address(host) THEN FALSE
        ELSE IF InNoProxy(host, no_proxy) THEN FALSE
        ELSE TRUE

\* self.proxy_config after _setup_session: None, or the proxy for both schemes.
ProxyConfigs == {None, [http |-> "http://proxy:7890", https |-> "http://proxy:7890"]}

\* _get_proxies_for_request, lines 117-125
get_proxies_for_request(proxy_config, target_url, no_proxy) ==
    IF proxy_config = None THEN None
    ELSE IF should_use_proxy(target_url, no_proxy) THEN proxy_config
    ELSE None

ProxyRequests ==
    [fn : {"get_proxies_for_request"}, proxy_config : ProxyConfigs, target_url : Urls,
     no_proxy : NoProxySettings]

GetProxiesForRequest ==
    /\ applied = "none"
    /\ input.fn = "get_proxies_for_request"
    /\ applied' = input.fn
    /\ output' = get_proxies_for_request(input.proxy_config, input.target_url, input.no_proxy)
    /\ UNCHANGED input
    /\ UNCHANGED outside_pure

\* ------------------------------------------------------------------ text

\* The characters of the range \u4e00-\u9fff that the texts below use.
Han ==
   {"U+4E00", "U+4E0A", "U+4E1A", "U+4E1D", "U+4E2D", "U+4EA4", "U+4EBA", "U+4EE3",
    "U+4F4D", "U+4F5C", "U+4FDD", "U+4FE1", "U+5047", "U+5065", "U+5145", "U+517C",
    "U+51CF", "U+51ED", "U+5237", "U+523B", "U+529E", "U+52A0", "U+52A9", "U+5355",
    "U+535A", "U+5361", "U+53D1", "U+53F7", "U+5408", "U+544A", "U+54C1", "U+5546",
    "U+589E", "U+5916", "U+591C", "U+5B57", "U+5BA2", "U+5BB9", "U+5BCC", "U+5E02",
    "U+5E55", "U+5E7F", "U+5F62", "U+5F69", "U+60C5", "U+620F", "U+6210", "U+6295",
    "U+62DB", "U+6302", "U+6309", "U+63A5", "U+63A8", "U+63F4", "U+6469", "U+6574",
    "U+6587", "U+65B0", "U+65F6", "U+6B3E", "U+6C42", "U+6D41", "U+6E05", "U+6E38",
    "U+7406", "U+7528", "U+76D7", "U+76DF", "U+7834", "U+7968", "U+7AE0", "U+7C89",
    "U+7EC3", "U+7F8E", "U+804C", "U+8058", "U+80A1", "U+80A5", "U+81F4", "U+8272",
    "U+8425", "U+89E3", "U+8A89", "U+8BC1", "U+8D22", "U+8D2D", "U+8D37", "U+8D44",
    "U+8D4C", "U+8D5A", "U+8D5E", "U+91CF", "U+94B1", "U+94BB", "U+94FE", "U+9500",
    "U+96C6", "U+9AD8", "U+9ED1"}

\* \s and \w of the re module on str
IsSpace(c) == c = " "
IsWord(c) == c \in Letters \/ c \in Digits \/ c = "_" \/ c \in Han

\* str.strip()
strip(s) ==
    LET kept == {i \in 1..Len(s) : ~IsSpace(s[i])}
    IN  IF kept = {} THEN <<>>
        ELSE SubSeq(s, CHOOSE i \in kept : \A j \in kept : i <= j,
                       CHOOSE i \in kept : \A j \in kept : i >= j)

\* re.search(prefix(\d+), s).group(1), or <<>> when there is no match
search_digits_after(s, prefix) ==
    LET found == {i \in 1..Len(s) : StartsAt(s, i, prefix) /\ digits_from(s, i + Len(prefix)) # <<>>}
    IN  IF found = {} THEN <<>>
        ELSE digits_from(s, (CHOOSE i \in found : \A j \in found : i <= j) + Len(prefix))

\* ------------------------------------------------------------------ list pages

\* is_advertisement_title, lines 268-281
ad_keywords == <<
    <<"U+5E7F", "U+544A">>,
    <<"U+63A8", "U+5E7F">>,
    <<"U+8D5E", "U+52A9">>,
    <<"U+5408", "U+4F5C">>,
    <<"U+5546", "U+4E1A">>,
    <<"U+8425", "U+9500">>,
    <<"a", "d">>,
    <<"a", "d", "v", "e", "r", "t", "i", "s", "e", "m", "e", "n", "t">>,
    <<"s", "p", "o", "n", "s", "o", "r">>,
    <<"p", "r", "o", "m", "o", "t", "i", "o", "n">>,
    <<"c", "o", "m", "m", "e", "r", "c", "i", "a", "l">>,
    <<"U+63A8", "U+5E7F", "U+94FE", "U+63A5">>,
    <<"U+5E7F", "U+544A", "U+4F4D">>,
    <<"U+62DB", "U+5546">>,
    <<"U+4EE3", "U+7406">>,
    <<"U+52A0", "U+76DF">>,
    <<"U+8D5A", "U+94B1">>,
    <<"U+81F4", "U+5BCC">>,
    <<"U+517C", "U+804C">>,
    <<"U+62DB", "U+8058">>,
    <<"U+6C42", "U+804C">>,
    <<"U+6E38", "U+620F">>,
    <<"U+8D4C", "U+535A">>,
    <<"U+535A", "U+5F69">>,
    <<"U+5F69", "U+7968">>,
    <<"U+65F6", "U+65F6", "U+5F69">>,
    <<"U+8D37", "U+6B3E">>,
    <<"U+4FE1", "U+7528", "U+5361">>,
    <<"U+7406", "U+8D22">>,
    <<"U+6295", "U+8D44">>,
    <<"U+80A1", "U+7968">>,
    <<"U+4FDD", "U+5065", "U+54C1">>,
    <<"U+51CF", "U+80A5">>,
    <<"U+7F8E", "U+5BB9">>,
    <<"U+6574", "U+5F62">>,
    <<"U+589E", "U+9AD8">>,
    <<"U+4EE3", "U+8D2D">>,
    <<"U+4EE3", "U+5237">>,
    <<"U+4EE3", "U+7EC3">>,
    <<"U+4EE3", "U+5145">>,
    <<"U+4EE3", "U+6302">>,
    <<"U+5237", "U+5355">>,
    <<"U+5237", "U+94BB">>,
    <<"U+5237", "U+4FE1", "U+8A89">>,
    <<"U+5237", "U+6D41", "U+91CF">>,
    <<"U+5237", "U+7C89", "U+4E1D">>,
    <<"U+8272", "U+60C5">>,
    <<"U+6210", "U+4EBA">>,
    <<"U+4E00", "U+591C", "U+60C5">>,
    <<"U+63F4", "U+4EA4">>,
    <<"U+6309", "U+6469">>,
    <<"U+529E", "U+8BC1">>,
    <<"U+523B", "U+7AE0">>,
    <<"U+53D1", "U+7968">>,
    <<"U+5047", "U+8BC1">>,
    <<"U+5047", "U+6587", "U+51ED">>,
    <<"U+9ED1", "U+5BA2">>,
    <<"U+7834", "U+89E3">>,
    <<"U+76D7", "U+53F7">>,
    <<"U+5237", "U+94BB">>,
    <<"U+5916", "U+6302">>>>

\* is_advertisement_title, lines 284-286
has_ad_keyword(title) ==
    LET title_lower == lower(title)
    IN  \E k \in 1..Len(ad_keywords) : Contains(title_lower, ad_keywords[k])

\* is_advertisement_title, line 289
too_short(title) == Len(strip(title)) < 5

\* is_advertisement_title, line 293: re.match(r'^[^\u4e00-\u9fff\w\s]+$', title)
only_symbols(title) ==
    /\ Len(title) > 0
    /\ \A i \in 1..Len(title) : title[i] \notin Han /\ ~IsWord(title[i]) /\ ~IsSpace(title[i])

\* is_advertisement_title, line 297: more digits than len(title) * 0.3
mostly_digits(title) ==
    10 * Cardinality({i \in 1..Len(title) : title[i] \in Digits}) > 3 * Len(title)

only_keywords_checked(title) == title = <<>> \/ has_ad_keyword(title)

\* ListPageParser.is_advertisement_title
is_advertisement_title(title) ==
    \/ title = <<>>
    \/ has_ad_keyword(title)
    \/ too_short(title)
    \/ only_symbols(title)
    \/ mostly_digits(title)

\* ListPageParser.extract_tid; <<>> stands for None
extract_tid(href) ==
    LET match == search_digits_after(href, <<"t", "h", "r", "e", "a", "d", "-">>)
    IN  IF match # <<>> THEN match
        ELSE search_digits_after(href, <<"t", "i", "d", "=">>)

\* ListPageParser.extract_title: the title attribute, else the text of the
\* anchor, both stripped; <<>> stands for None
extract_title(link) ==
    IF link.title # <<>> THEN strip(link.title) ELSE strip(link.text)

\* parse_thread_links, lines 194-199: the anchors a selector picks
selectors == <<"a[href*='thread-']", "a[href*='forum.php?mod=viewthread']", ".tl a", ".s a">>

select(selector, link) ==
    CASE selector = 1 -> Contains(link.href, <<"t", "h", "r", "e", "a", "d", "-">>)
      [] selector = 2 -> Contains(link.href, <<"f", "o", "r", "u", "m", ".", "p", "h", "p", "?", "m", "o", "d", "=", "v", "i", "e", "w", "t", "h", "r", "e", "a", "d">>)
      [] selector = 3 -> link.within = "tl"
      [] selector = 4 -> link.within = "s"

\* parse_thread_links, lines 204-229: what one picked anchor adds
thread_info(link) ==
    LET tid == extract_tid(link.href)
        title == extract_title(link)
    IN  IF link.href = <<>> THEN <<>>
        ELSE IF tid = <<>> THEN <<>>
        ELSE IF title = <<>> THEN <<>>
        ELSE IF is_advertisement_title(title) THEN <<>>
        ELSE <<[tid |-> tid, title |-> title]>>

\* Titles and hrefs of the anchors tried.
T_new_release == <<"S", "S", "I", "S", "-", "0", "0", "1", " ", "U+65B0", "U+4F5C", "U+4E0A", "U+5E02">>

T_collection == <<"U+9AD8", "U+6E05", "U+4E2D", "U+6587", "U+5B57", "U+5E55", "U+5408", "U+96C6">>

T_ad_keywords == <<"U+5E7F", "U+544A", "U+63A8", "U+5E7F", "U+5408", "U+4F5C">>

T_ad_upper == <<"H", "E", "A", "D", " ", "s", "h", "o", "t">>

T_short == <<"U+65B0", "U+4F5C">>

T_padded == <<" ", " ", "a", "b", "c", " ">>

T_symbols == <<"U+2605", "U+2605", "U+2605", "U+2605", "U+2605", "U+2605">>

T_digits == <<"A", "B", "P", "-", "1", "2", "3">>

T_digits_30 == <<"1", "2", "3", " ", "U+65B0", "U+4F5C", "U+4E0A", "U+5E02", "U+5408", "U+96C6">>

H_thread_101 == <<"t", "h", "r", "e", "a", "d", "-", "1", "0", "1", "-", "1", "-", "1", ".", "h", "t", "m", "l">>

H_tid_102 == <<"f", "o", "r", "u", "m", ".", "p", "h", "p", "?", "m", "o", "d", "=", "v", "i", "e", "w", "t", "h", "r", "e", "a", "d", "&", "t", "i", "d", "=", "1", "0", "2">>

H_thread_103 == <<"t", "h", "r", "e", "a", "d", "-", "1", "0", "3", "-", "1", "-", "1", ".", "h", "t", "m", "l">>

H_thread_104 == <<"t", "h", "r", "e", "a", "d", "-", "1", "0", "4", "-", "1", "-", "1", ".", "h", "t", "m", "l">>

H_forum == <<"f", "o", "r", "u", "m", "-", "3", "6", "-", "2", ".", "h", "t", "m", "l">>

Anchor(href, title, text, within) ==
    [href |-> href, title |-> title, text |-> text, within |-> within]

\* Anchors of a list page: thread links in both href forms, inside and outside
\* a .tl element, with titles that meet each heuristic and titles that meet none.
Anchors ==
    {Anchor(H_thread_101, <<>>, T_new_release, ""),
     Anchor(H_thread_101, T_padded, T_new_release, ""),
     Anchor(H_tid_102, <<>>, T_collection, "tl"),
     Anchor(H_tid_102, <<>>, T_digits, ""),
     Anchor(H_thread_103, <<>>, T_ad_keywords, ""),
     Anchor(H_thread_103, <<>>, T_digits_30, "tl"),
     Anchor(H_thread_104, <<>>, T_ad_upper, ""),
     Anchor(H_thread_104, <<>>, T_symbols, "s"),
     Anchor(H_thread_104, T_short, T_collection, ""),
     Anchor(H_forum, <<>>, T_collection, "tl")}

\* What each anchor adds when each selector is tried, tabulated.
picked ==
    [selector \in 1..Len(selectors), link \in Anchors |->
        IF select(selector, link) THEN thread_info(link) ELSE <<>>]

\* parse_thread_links: the loop over the selectors and, for each, the anchors
\* in document order
RECURSIVE links_from(_, _, _)
links_from(html, selector, i) ==
    IF selector > Len(selectors) THEN <<>>
    ELSE IF i > Len(html) THEN links_from(html, selector + 1, 1)
    ELSE picked[selector, html[i]] \o links_from(html, selector, i + 1)

\* ListPageParser.parse_thread_links
parse_thread_links(html) == links_from(html, 1, 1)

\* The loop of deduplicate_threads over links whose identifier is the text
\* extract_tid gave.
RECURSIVE dedup_links(_, _, _)
dedup_links(threads, i, seen) ==
    IF i > Len(threads) THEN <<>>
    ELSE IF threads[i].tid # <<>> /\ threads[i].tid \notin seen
         THEN <<threads[i]>> \o dedup_links(threads, i + 1, seen \cup {threads[i].tid})
         ELSE dedup_links(threads, i + 1, seen)

\* parse_list_page, lines 323-336: the links of the responses with status 200,
\* deduplicated
RECURSIVE all_threads_of(_, _)
all_threads_of(responses, i) ==
    IF i > Len(responses) THEN <<>>
    ELSE (IF responses[i] # None /\ responses[i].status_code = 200
          THEN parse_thread_links(responses[i].text) ELSE <<>>)
         \o all_threads_of(responses, i + 1)

parse_list_page(responses) == dedup_links(all_threads_of(responses, 1), 1, {})

\* Anchors of one list page.
MaxAnchors == 3

RECURSIVE Pages(_)
Pages(n) ==
    IF n = 0 THEN {<<>>}
    ELSE Pages(n - 1) \cup {Append(p, a) : p \in {q \in Pages(n - 1) : Len(q) = n - 1}, a \in Anchors}

\* What request_page gives for the second URL template: None, an error page,
\* or the same list page.
ListPageRequests(n) ==
    {[fn |-> "parse_list_page",
      responses |-> <<[status_code |-> 200, text |-> html], second>>] :
        html \in Pages(n),
        second \in {None, [status_code |-> 403, text |-> <<>>]}} \cup
    {[fn |-> "parse_list_page",
      responses |-> <<[status_code |-> 200, text |-> html], [status_code |-> 200, text |-> html]>>] :
        html \in Pages(n)}

ApplyParseListPage ==
    /\ applied = "none"
    /\ input.fn = "parse_list_page"
    /\ applied' = input.fn
    /\ output' = parse_list_page(input.responses)
    /\ UNCHANGED input
    /\ UNCHANGED outside_pure

\* ------------------------------------------------------------------ magnet links

\* A magnet URI as written in a page: "magnet:?xt=urn:btih:" and a hash of 40
\* hexadecimal digits, in lower or upper case, alone or followed by parameters
\* ("&dn=...").  Two URIs are the same string when they agree in all three.
MagnetUris == [hash : {"h1", "h2"}, upper : BOOLEAN, params : {"", "&dn=name"}]

\* extract_magnet_links, lines 455-459: re.findall of
\* magnet:\?xt=urn:btih:[0-9A-Fa-f]{40,} gives each URI of the text up to the
\* end of its hash
findall_magnets(page_text) ==
    {[page_text[i] EXCEPT !.params = ""] : i \in 1..Len(page_text)}

\* extract_magnet_links, lines 462-466: the hrefs that start with "magnet:"
magnet_hrefs(links) == {links[i] : i \in 1..Len(links)}

\* ListPageParser.extract_magnet_links on a page with the URIs of page_text in
\* its text and those of links as hrefs: list(set(magnets))
extract_magnets(soup) == findall_magnets(soup.page_text) \cup magnet_hrefs(soup.links)

\* Magnet URIs in the text of one detail page.
MaxOccurrences == 2

RECURSIVE UriLists(_)
UriLists(n) ==
    IF n = 0 THEN {<<>>}
    ELSE UriLists(n - 1) \cup
         {Append(l, u) : l \in {k \in UriLists(n - 1) : Len(k) = n - 1}, u \in MagnetUris}

MagnetPages ==
    [fn : {"extract_magnet_links"}, page_text : UriLists(MaxOccurrences), links : UriLists(1)]

ApplyExtractMagnetLinks ==
    /\ applied = "none"
    /\ input.fn = "extract_magnet_links"
    /\ applied' = input.fn
    /\ output' = extract_magnets(input)
    /\ UNCHANGED input
    /\ UNCHANGED outside_pure

\* ------------------------------------------------------------------ deduplicate_threads

\* Links given to deduplicate_threads at once.
MaxThreads == 3

\* A link: its thread identifier (0: none) and its title.
ThreadLinks == [tid : 0..2, title : {"first", "second"}]

RECURSIVE ThreadLists(_)
ThreadLists(n) ==
    IF n = 0 THEN {<<>>}
    ELSE ThreadLists(n - 1) \cup
         {Append(l, t) : l \in {k \in ThreadLists(n - 1) : Len(k) = n - 1}, t \in ThreadLinks}

DedupRequests == [fn : {"deduplicate_threads"}, threads : ThreadLists(MaxThreads)]

ApplyDeduplicateThreads ==
    /\ applied = "none"
    /\ input.fn = "deduplicate_threads"
    /\ applied' = input.fn
    /\ output' = deduplicate_threads(input.threads)
    /\ UNCHANGED input
    /\ UNCHANGED outside_pure

\* ------------------------------------------------------------------ images

EndsWith(s, p) == Len(p) <= Len(s) /\ SubSeq(s, Len(s) - Len(p) + 1, Len(s)) = p
StartsWith(s, p) == StartsAt(s, 1, p)

\* extract_images, lines 598-605
content_selectors ==
    <<"td.t_f img", "div.t_msgfont img", "div.postmessage img", ".t_msgfont img",
      ".postmessage img", "div[id*=post_] img">>

\* soup.select(selector), for an <img> whose enclosing post element is `within`
img_select(selector, img) ==
    CASE selector = 1 -> img.within = "td.t_f"
      [] selector \in {2, 4} -> img.within = "div.t_msgfont"
      [] selector \in {3, 5} -> img.within = "div.postmessage"
      [] selector = 6 -> img.within = "div#post_1"

\* extract_images, line 610: the first attribute that is set
img_src(img) ==
    IF img.src # <<>> THEN img.src
    ELSE IF img.data_src # <<>> THEN img.data_src
    ELSE IF img.zoomfile # <<>> THEN img.zoomfile
    ELSE img.file

\* extract_images, lines 613-614 and 647-648: a relative URL is put under the site
absolute(src) ==
    IF StartsWith(src, <<"h", "t", "t", "p">>) THEN src
    ELSE IF StartsWith(src, <<"/">>) THEN <<"h", "t", "t", "p", "s", ":", "/", "/", "s", "e", "h", "u", "a", "t", "a", "n", "g", ".", "o", "r", "g">> \o src
    ELSE <<"h", "t", "t", "p", "s", ":", "/", "/", "s", "e", "h", "u", "a", "t", "a", "n", "g", ".", "o", "r", "g", "/">> \o src

is_jpg(src) ==
    EndsWith(lower(src), <<".", "j", "p", "g">>) \/ EndsWith(lower(src), <<".", "j", "p", "e", "g">>)

\* extract_images, lines 618-625: words looked for in src
excluded_words == <<
    <<"n", "o", "n", "e", ".", "g", "i", "f">>,
    <<"p", "l", "a", "c", "e", "h", "o", "l", "d", "e", "r">>,
    <<"s", "t", "a", "t", "i", "c", "/", "i", "m", "a", "g", "e", "/", "c", "o", "m", "m", "o", "n">>,
    <<"a", "v", "a", "t", "a", "r">>,
    <<"l", "o", "g", "o">>,
    <<"i", "c", "o", "n">>,
    <<"b", "t", "n">>,
    <<"t", "o", "r", "r", "e", "n", "t", ".", "g", "i", "f">>>>

\* extract_images, lines 626-634: words looked for in src.lower()
excluded_words_lower == <<
    <<"a", "d">>,
    <<"b", "a", "n", "n", "e", "r">>,
    <<"s", "p", "o", "n", "s", "o", "r">>,
    <<"a", "d", "s">>,
    <<"a", "d", "v", "e", "r", "t", "i", "s", "e", "m", "e", "n", "t">>,
    <<"p", "r", "o", "m", "o">>,
    <<"c", "o", "m", "m", "e", "r", "c", "i", "a", "l">>,
    <<"t", "u", "i", "g", "u", "a", "n", "g">>,
    <<"g", "u", "a", "n", "g", "g", "a", "o">>>>

\* extract_images, lines 617-635: a jpg that names none of the excluded words
keep_image(src) ==
    /\ is_jpg(src)
    /\ \A k \in 1..Len(excluded_words) : ~Contains(src, excluded_words[k])
    /\ LET src_lower == lower(src)
       IN  \A k \in 1..Len(excluded_words_lower) : ~Contains(src_lower, excluded_words_lower[k])

\* `if src not in all_images: all_images.append(src)`
append_new(all_images, src) ==
    IF \E i \in 1..Len(all_images) : all_images[i] = src THEN all_images
    ELSE Append(all_images, src)

Img(src, file, within) ==
    [src |-> src, data_src |-> <<>>, zoomfile |-> <<>>, file |-> file, within |-> within]

\* The <img> elements tried: absolute and relative URLs, lazily loaded images
\* (file), other formats, excluded words, with and without a product code.
Imgs ==
    {Img(<<"h", "t", "t", "p", "s", ":", "/", "/", "i", "m", "g", ".", "e", "x", "a", "m", "p", "l", "e", "/", "S", "S", "I", "S", "-", "0", "0", "1", ".", "j", "p", "g">>,
         <<>>, "td.t_f"),
     Img(<<>>,
         <<"/", "d", "a", "t", "a", "/", "A", "B", "P", "-", "1", "2", "3", ".", "J", "P", "G">>, "div.t_msgfont"),
     Img(<<"d", "a", "t", "a", "/", "a", "b", "p", "-", "1", "2", "4", ".", "j", "p", "e", "g">>,
         <<>>, "td.t_f"),
     Img(<<"h", "t", "t", "p", "s", ":", "/", "/", "s", "e", "h", "u", "a", "t", "a", "n", "g", ".", "o", "r", "g", "/", "d", "a", "t", "a", "/", "A", "B", "P", "-", "1", "2", "3", ".", "J", "P", "G">>,
         <<>>, "td.t_f"),
     Img(<<"h", "t", "t", "p", "s", ":", "/", "/", "i", "m", "g", ".", "e", "x", "a", "m", "p", "l", "e", "/", "b", "a", "n", "n", "e", "r", ".", "j", "p", "g">>,
         <<>>, "td.t_f"),
     Img(<<"h", "t", "t", "p", "s", ":", "/", "/", "i", "m", "g", ".", "e", "x", "a", "m", "p", "l", "e", "/", "n", "o", "n", "e", ".", "g", "i", "f">>,
         <<>>, "div.postmessage"),
     Img(<<"h", "t", "t", "p", "s", ":", "/", "/", "i", "m", "g", ".", "e", "x", "a", "m", "p", "l", "e", "/", "c", "o", "v", "e", "r", ".", "j", "p", "g">>,
         <<>>, "div#post_1"),
     Img(<<"h", "t", "t", "p", "s", ":", "/", "/", "i", "m", "g", ".", "e", "x", "a", "m", "p", "l", "e", "/", "M", "I", "D", "E", "-", "1", "2", "3", "4", ".", "j", "p", "g">>,
         <<>>, "")}

\* extract_images, lines 610-635: the URL an <img> contributes, if any
kept_url(img) ==
    LET src == img_src(img)
        url == absolute(src)
    IN  IF src # <<>> /\ keep_image(url) THEN <<url>> ELSE <<>>

\* kept_url, tabulated
kept_urls == [img \in Imgs |-> kept_url(img)]

\* extract_images, lines 607-637: the loop over the selectors and, for each,
\* the images it picks
RECURSIVE images_from(_, _, _, _)
images_from(imgs, selector, i, all_images) ==
    IF selector > Len(content_selectors) THEN all_images
    ELSE IF i > Len(imgs) THEN images_from(imgs, selector + 1, 1, all_images)
    ELSE IF img_select(selector, imgs[i]) /\ kept_urls[imgs[i]] # <<>>
         THEN images_from(imgs, selector, i + 1, append_new(all_images, kept_urls[imgs[i]][1]))
         ELSE images_from(imgs, selector, i + 1, all_images)

\* extract_images, lines 640-650: the jpg links of the post
RECURSIVE attachments_from(_, _, _)
attachments_from(links, i, all_images) ==
    IF i > Len(links) THEN all_images
    ELSE IF is_jpg(links[i])
         THEN attachments_from(links, i + 1, append_new(all_images, absolute(links[i])))
         ELSE attachments_from(links, i + 1, all_images)

\* re.search(r'[A-Z]{2,4}-\d{3,4}', img_url, re.IGNORECASE): two letters, a
\* hyphen and three digits somewhere in the URL
has_code_pattern(img_url) ==
    \E i \in 3..(Len(img_url) - 3) :
        /\ img_url[i] = "-"
        /\ img_url[i - 2] \in Letters /\ img_url[i - 1] \in Letters
        /\ img_url[i + 1] \in Digits /\ img_url[i + 2] \in Digits /\ img_url[i + 3] \in Digits

\* extract_images, lines 653-657
RECURSIVE covers_from(_, _, _)
covers_from(all_images, i, cover_images) ==
    IF i > Len(all_images) THEN cover_images
    ELSE IF has_code_pattern(all_images[i])
         THEN covers_from(all_images, i + 1, append_new(cover_images, all_images[i]))
         ELSE covers_from(all_images, i + 1, cover_images)

\* cover_images without the slice
every_cover(cover_images) == cover_images

\* cover_images[:2]
first_two(cover_images) ==
    SubSeq(cover_images, 1, IF Len(cover_images) < 2 THEN Len(cover_images) ELSE 2)

\* ListPageParser.extract_images
extract_images(soup) ==
    LET all_images == attachments_from(soup.links, 1, images_from(soup.imgs, 1, 1, <<>>))
    IN  [cover_images |-> first_two(covers_from(all_images, 1, <<>>)),
         all_images |-> all_images]

\* The links of a post tried: a jpg that is also an <img>, and a jpg of its own.
AttachmentLinks ==
    {<<>>,
     <<<<"h", "t", "t", "p", "s", ":", "/", "/", "i", "m", "g", ".", "e", "x", "a", "m", "p", "l", "e", "/", "S", "S", "I", "S", "-", "0", "0", "1", ".", "j", "p", "g">>>>,
     <<<<"/", "f", "o", "r", "u", "m", "/", "I", "P", "X", "-", "7", "7", "7", ".", "j", "p", "e", "g">>>>}

\* <img> elements of one detail page.
MaxImages == 3

RECURSIVE ImgLists(_)
ImgLists(n) ==
    IF n = 0 THEN {<<>>}
    ELSE ImgLists(n - 1) \cup
         {Append(l, e) : l \in {k \in ImgLists(n - 1) : Len(k) = n - 1}, e \in Imgs}

ImagePages == [fn : {"extract_images"}, imgs : ImgLists(MaxImages), links : AttachmentLinks]

ApplyExtractImages ==
    /\ applied = "none"
    /\ input.fn = "extract_images"
    /\ applied' = input.fn
    /\ output' = extract_images(input)
    /\ UNCHANGED input
    /\ UNCHANGED outside_pure

\* ------------------------------------------------------------------ one poll of one task

\* scheduled_tasks.next_run is a DateTime column without time zone: an aware
\* datetime is stored as its wall-clock time in the time zone of the database
\* session (session minutes east of UTC), a naive one as it is, and comes back
\* naive.
stored_next_run(next_run, session) ==
    IF next_run.naive THEN next_run
    ELSE Naive(next_run.wall - next_run.utcoffset + session)

\* start_scheduler, lines 211-221, for one task at the UTC instant utcnow:
\* whether run_task is launched.  entry is what running_tasks holds for it.
launched(task, entry, utcnow) ==
    /\ task.enabled
    /\ task.next_run.wall <= Naive(utcnow).wall
    /\ entry \in {"none", "done"}

\* The database session's time zone: the one the URL of db.py sets
\* (Asia/Shanghai), or UTC from a DATABASE_URL without the option.
SessionOffsets == {480, 0}

\* How long after next_run was computed the poll happens, in minutes.
PollDelays == {0, 5, 60, 485, 545}

PollRequests ==
    [fn : {"start_scheduler"},
     cron_expression : {Cron(<<"*", "/", "5">>, <<"*">>), Cron(<<"*", "/", "0">>, <<"*">>)},
     timezone : DOMAIN utcoffsets,
     computed : {t \in Instants : t % 10 = 3},
     delay : PollDelays,
     server : ServerOffsets,
     session : SessionOffsets,
     enabled : BOOLEAN,
     entry : {"none", "running", "done"}]

\* create_task (or run_task) computes and commits next_run at the instant
\* computed; the polling loop reads the row at computed + delay.
ApplyPoll ==
    /\ applied = "none"
    /\ input.fn = "start_scheduler"
    /\ applied' = input.fn
    /\ LET next_run == calculate_next_run(input.cron_expression, input.timezone,
                                          input.computed, input.server)
           task == [enabled |-> input.enabled,
                    next_run |-> stored_next_run(next_run, input.session)]
       IN  output' = [next_run |-> next_run,
                      launched |-> launched(task, input.entry, input.computed + input.delay)]
    /\ UNCHANGED input
    /\ UNCHANGED outside_pure

\* ------------------------------------------------------------------ task keywords

\* A keyword: "abp", "Ssis", "mide", "003,AB", "".
KeywordStrings ==
    {<<"a", "b", "p">>, <<"S", "s", "i", "s">>, <<"m", "i", "d", "e">>,
     <<"0", "0", "3", ",", "A", "B">>, <<>>}

\* The keywords of a request or of a task's data: None or a list.
ConfiguredKeywords ==
    {None} \cup {[words |-> <<>>]}
           \cup {[words |-> <<k>>] : k \in KeywordStrings}
           \cup {[words |-> <<k, l>>] : k \in KeywordStrings, l \in KeywordStrings}

\* ",".join(words) from index i on
RECURSIVE join_from(_, _)
join_from(words, i) ==
    IF i > Len(words) THEN <<>>
    ELSE (IF i > 1 THEN <<",">> ELSE <<>>) \o words[i] \o join_from(words, i + 1)

\* SchedulerManager.create_task: the keywords column of the new row;
\* task_data.get("keywords", []) stands for data without the key.
create_task_keywords(task_data_keywords) ==
    IF task_data_keywords = None THEN <<>> ELSE join_from(task_data_keywords.words, 1)

\* text.split(',') from index i on, part being the piece read so far
RECURSIVE split_from(_, _, _)
split_from(text, i, part) ==
    IF i > Len(text) THEN <<part>>
    ELSE IF text[i] = "," THEN <<part>> \o split_from(text, i + 1, <<>>)
    ELSE split_from(text, i + 1, Append(part, text[i]))

\* SchedulerManager.run_task: the keywords given to start_crawler
run_task_keywords(text) ==
    IF text = <<>> THEN None ELSE [words |-> split_from(text, 1, <<>>)]

\* The keywords that reach crawl_single_theme: the request's as they are, a
\* task's through its keywords column.
passed_keywords(caller, configured) ==
    IF caller = "api" THEN configured
    ELSE run_task_keywords(create_task_keywords(configured))

\* crawl_single_theme, lines 795-798: if keywords: filter
filtered_threads(threads, passed) ==
    IF passed = None THEN threads ELSE filter_threads_by_keywords(threads, passed.words)

RECURSIVE FilterThreadLists(_)
FilterThreadLists(n) ==
    IF n = 0 THEN {<<>>}
    ELSE FilterThreadLists(n - 1) \cup
         {Append(l, [tid |-> t]) : l \in {k \in FilterThreadLists(n - 1) : Len(k) = n - 1},
                                   t \in 1..2}

FilterRequests(n) ==
    [fn : {"filter_threads_by_keywords"}, caller : Callers,
     keywords : ConfiguredKeywords, threads : FilterThreadLists(n)]

ApplyFilterThreadsByKeywords ==
    /\ applied = "none"
    /\ input.fn = "filter_threads_by_keywords"
    /\ applied' = input.fn
    /\ LET passed == passed_keywords(input.caller, input.keywords)
       IN  output' = [keywords |-> passed, threads |-> filtered_threads(input.threads, passed)]
    /\ UNCHANGED input
    /\ UNCHANGED outside_pure

\* ------------------------------------------------------------------ progress

\* completed / total * 100, kept as the fraction num / den (den > 0 where the
\* code divides).
progress(completed, total) == [num |-> completed * 100, den |-> total]

\* What one iteration of the page loop meets: the stop flag cleared, a page
\* parsed (with or without links), an exception.
PageEvents == {"stopped", "parsed", "raises"}

\* What one iteration of the detail loop meets: the stop flag cleared, a link
\* without url, no detail, a detail without magnets, a detail that is saved, an
\* exception.
DetailEvents == {"stopped", "no_url", "no_detail", "no_magnets", "saved", "raises"}

\* The page number taken for the number of pages done.
page_progress_by_page_number(first_page, page, total_pages) == progress(page, total_pages)

\* crawl_single_theme, line 780
page_progress(first_page, page, total_pages) == progress(page - first_page + 1, total_pages)

\* crawl_single_theme, lines 761-790: the values the page loop gives the
\* progress callback from page on
RECURSIVE list_progress(_, _, _, _)
list_progress(first_page, last_page, page, events) ==
    LET total_pages == last_page - first_page + 1
        event == events[page - first_page + 1]
    IN  IF page > last_page \/ event = "stopped" THEN <<>>
        ELSE (IF event = "parsed" THEN <<page_progress(first_page, page, total_pages)>>
              ELSE <<>>)
             \o list_progress(first_page, last_page, page + 1, events)

\* crawl_thread_details, lines 869-917: the values the detail loop gives the
\* progress callback from index i (counted from 0) on
RECURSIVE detail_progress(_, _, _)
detail_progress(total_threads, i, events) ==
    IF i >= total_threads \/ events[i + 1] = "stopped" THEN <<>>
    ELSE (IF events[i + 1] \in {"no_detail", "saved"}
          THEN <<progress(i + 1, total_threads)>> ELSE <<>>)
         \o detail_progress(total_threads, i + 1, events)

RECURSIVE EventLists(_, _)
EventLists(events, n) ==
    IF n = 0 THEN {<<>>}
    ELSE {Append(l, e) : l \in EventLists(events, n - 1), e \in events}

\* Page ranges first_page..last_page of at most n pages, the empty ones
\* included, each with what its iterations meet, with and without a callback.
ListProgressRequests(n) ==
    UNION {[fn : {"crawl_single_theme"}, registered : BOOLEAN,
            first_page : {first_page}, last_page : {last_page},
            events : EventLists(PageEvents, IF last_page < first_page THEN 0
                                            ELSE last_page - first_page + 1)] :
           first_page \in 1..2, last_page \in 0..(n + 1)}

\* Up to n threads to fetch, each with what its iteration meets.
DetailProgressRequests(n) ==
    [fn : {"crawl_thread_details"}, registered : BOOLEAN,
     events : UNION {EventLists(DetailEvents, k) : k \in 0..n}]

\* if self.progress_callback: no call without a callback
ApplyListProgress ==
    /\ applied = "none"
    /\ input.fn = "crawl_single_theme"
    /\ applied' = input.fn
    /\ output' = IF input.registered
                 THEN list_progress(input.first_page, input.last_page, input.first_page,
                                    input.events)
                 ELSE <<>>
    /\ UNCHANGED input
    /\ UNCHANGED outside_pure

ApplyDetailProgress ==
    /\ applied = "none"
    /\ input.fn = "crawl_thread_details"
    /\ applied' = input.fn
    /\ output' = IF input.registered THEN detail_progress(Len(input.events), 0, input.events)
                 ELSE <<>>
    /\ UNCHANGED input
    /\ UNCHANGED outside_pure

\* ------------------------------------------------------------------ collect_cookies

\* The domains of the cookies a browser context can hold after the visit: the
\* site's own and a third party's.
CookieDomains == {".sehuatang.org", "www.sehuatang.org", ".doubleclick.net"}

\* What the browser session ends with: an exception (launch failure,
\* navigation timeout) or the cookies context.cookies() exports, up to two.
Exports ==
    {[raises |-> TRUE, cookies |-> <<>>]} \cup
    {[raises |-> FALSE, cookies |-> l] :
        l \in {<<>>} \cup {<<[domain |-> d]>> : d \in CookieDomains}
                     \cup {<<[domain |-> d], [domain |-> e]>> : d \in CookieDomains,
                                                                e \in CookieDomains}}

\* collect_cookies, lines 104-123, as collect_cookies_auto reads its result:
\* "if success" is the truth value of the returned list; an exception gives
\* [] or is caught by collect_cookies_auto itself.
acquisition(export) ==
    IF export.raises THEN "error"
    ELSE IF export.cookies = <<>> THEN "zero"
    ELSE "cookies"

CollectRequests ==
    [fn : {"collect_cookies_auto"}, export : Exports,
     cookies_file : {"missing", "ok", "corrupt", "noaccess"}, refresh_due : BOOLEAN]

ApplyCollectCookiesAuto ==
    /\ applied = "none"
    /\ input.fn = "collect_cookies_auto"
    /\ applied' = input.fn
    /\ LET s == [cookies_file |-> input.cookies_file, refresh_due |-> input.refresh_due]
           o == acquisition(input.export)
           t == collect_cookies_auto(s, o)
       IN  output' = [returned |-> collected(s, o), cookies_file |-> t.cookies_file,
                      refresh_due |-> t.refresh_due]
    /\ UNCHANGED input
    /\ UNCHANGED outside_pure

\* ------------------------------------------------------------------ check_uncensored

\* The two values of the label: U+65E0 U+7801 (uncensored), U+6709 U+7801
\* (censored).
V_uncensored == <<"U+65E0", "U+7801">>
V_censored == <<"U+6709", "U+7801">>

\* check_uncensored, lines 566-571: what each pattern has before \s* and the
\* value, as its literal text and the characters that may end it.
censored_patterns == <<
    [literal |-> <<"U+3010", "U+662F", "U+5426", "U+6709", "U+7801", "U+3011">>,
     colon |-> {"U+FF1A"}],
    [literal |-> <<"U+3010", "U+6709", "U+7801", "U+3011">>, colon |-> {"U+FF1A"}],
    [literal |-> <<"U+662F", "U+5426", "U+6709", "U+7801">>, colon |-> {"U+FF1A", ":"}],
    [literal |-> <<"U+6709", "U+7801">>, colon |-> {"U+FF1A", ":"}] >>

\* check_uncensored, lines 580-583
uncensored_keywords == <<
    V_uncensored,
    <<"U+7121", "U+78BC">>,
    <<"u", "n", "c", "e", "n", "s", "o", "r", "e", "d">>,
    <<"U+65E0", "U+4FEE", "U+6B63">>,
    <<"U+7121", "U+4FEE", "U+6B63">>,
    <<"U+6D41", "U+51FA">>,
    <<"U+7834", "U+89E3">>,
    <<"U+7834", "U+89E3", "U+7248">>,
    <<"U+7834", "U+89E3", "U+7248", "U+6D41", "U+51FA">> >>

\* The index of the first character from i on that \s* does not take.
RECURSIVE after_spaces(_, _)
after_spaces(text, i) ==
    IF i <= Len(text) /\ IsSpace(text[i]) THEN after_spaces(text, i + 1) ELSE i

\* The pattern matches at index i: group(1), or <<>> when it does not.
status_at(pattern, text, i) ==
    LET colon == i + Len(pattern.literal)
    IN  IF StartsAt(text, i, pattern.literal) /\ colon <= Len(text)
           /\ text[colon] \in pattern.colon
        THEN LET value == after_spaces(text, colon + 1)
             IN  IF StartsAt(text, value, V_uncensored) THEN V_uncensored
                 ELSE IF StartsAt(text, value, V_censored) THEN V_censored
                 ELSE <<>>
        ELSE <<>>

\* re.search(pattern, text): group(1) of the leftmost match, <<>> without one
search_status(pattern, text) ==
    LET found == {i \in 1..Len(text) : status_at(pattern, text, i) # <<>>}
    IN  IF found = {} THEN <<>>
        ELSE status_at(pattern, text, CHOOSE i \in found : \A j \in found : i <= j)

\* for pattern in censored_patterns, from the k-th on: the status of the first
\* pattern that matches
RECURSIVE first_status(_, _)
first_status(text, k) ==
    IF k > Len(censored_patterns) THEN <<>>
    ELSE LET status == search_status(censored_patterns[k], text)
         IN  IF status # <<>> THEN status ELSE first_status(text, k + 1)

\* lines 585-588: a keyword occurs in the lowered text
keyword_found(text) ==
    LET text_lower == lower(text)
    IN  \E k \in 1..Len(uncensored_keywords) :
            Contains(text_lower, lower(uncensored_keywords[k]))

\* The keywords asked before the labels.
check_uncensored_keywords_first(title, content) ==
    LET text == title \o <<" ">> \o content
    IN  keyword_found(text) \/ first_status(text, 1) = V_uncensored

\* PageParser.check_uncensored
check_uncensored(title, content) ==
    LET text == title \o <<" ">> \o content
        status == first_status(text, 1)
    IN  IF status # <<>> THEN status = V_uncensored ELSE keyword_found(text)

\* Pieces of text: a label of the first format with either value (one with a
\* space before the value), a label of the fourth format without its value,
\* the two values, two keywords, a product code.
TextPieces ==
    {censored_patterns[1].literal \o <<"U+FF1A">> \o V_censored,
     censored_patterns[1].literal \o <<"U+FF1A", " ">> \o V_uncensored,
     censored_patterns[4].literal \o <<":">>,
     V_censored,
     V_uncensored,
     <<"U", "n", "c", "e", "n", "s", "o", "r", "e", "d">>,
     <<"U+6D41", "U+51FA">>,
     <<"S", "S", "I", "S", "-", "0", "0", "1">>}

\* Pieces in the content of a thread.
MaxPieces == 2

RECURSIVE Texts(_)
Texts(n) ==
    IF n = 0 THEN {<<>>}
    ELSE Texts(n - 1) \cup {t \o p : t \in Texts(n - 1), p \in TextPieces}

UncensoredRequests(n) ==
    [fn : {"check_uncensored"}, title : Texts(1), content : Texts(n)]

ApplyCheckUncensored ==
    /\ applied = "none"
    /\ input.fn = "check_uncensored"
    /\ applied' = input.fn
    /\ output' = check_uncensored(input.title, input.content)
    /\ UNCHANGED input
    /\ UNCHANGED outside_pure

\* ------------------------------------------------------------------ the pure functions together

NextPure ==
    \/ GetProxiesForRequest
    \/ ApplyParseListPage
    \/ ApplyExtractMagnetLinks
    \/ ApplyDeduplicateThreads
    \/ ApplyExtractImages
    \/ ApplyCalculateNextRun
    \/ ApplyPoll
    \/ ApplyFilterThreadsByKeywords
    \/ ApplyListProgress
    \/ ApplyDetailProgress
    \/ ApplyCollectCookiesAuto
    \/ ApplyCheckUncensored

\* Any argument of any of the functions, not yet applied.
InitPure ==
    /\ SchedulerInit /\ CrawlerIdle /\ FetchIdle(1) /\ CookieFileIdle
    /\ applied = "none"
    /\ output = None
    /\ \/ input \in ProxyRequests
       \/ input \in ListPageRequests(MaxAnchors)
       \/ input \in MagnetPages
       \/ input \in DedupRequests
       \/ input \in ImagePages
       \/ input \in NextRunRequests
       \/ input \in PollRequests
       \/ input \in FilterRequests(MaxThreads)
       \/ input \in ListProgressRequests(MaxPage)
       \/ input \in DetailProgressRequests(MaxThreads)
       \/ input \in CollectRequests
       \/ input \in UncensoredRequests(MaxPieces)

SpecPure == InitPure /\ [][NextPure]_pure_vars

\* ================================================================== cancellation

\* run_task awaits start_crawler in its own task (scheduler_manager.py, line
\* 168), and stop_scheduler and delete_task cancel that task: CancelledError
\* is raised at the await the invocation is suspended at.  It is not an
\* Exception, so no except clause of the invocation catches it, and the
\* finally clauses run.

\* The awaits a cancellation is followed through: the sleeps, the probe, the
\* requests of the crawl and close_client.  (The acquisition is left out: the
\* bare except of collect_cookies.py, line 94, can swallow the cancellation.)
Cancellable ==
    {"sleep_probe", "sleep_retry", "probe", "list", "sleep_page", "detail",
     "sleep_detail", "closing"}

\* The frame start_crawler leaves when CancelledError leaves it: nothing is
\* returned; client_closed tells whether every client the invocation created
\* was closed.
CancelledFrame(f, client_closed) ==
    [IdleFrame EXCEPT !.pc = "done",
                      !.result = [raised |-> "CancelledError",
                                  client_closed |-> client_closed],
                      !.crawls = f.crawls, !.fetched = f.fetched]

\* CancelledError leaves start_crawler: its finally clause, line 286
start_crawler_cancelled(s, c, client_closed) ==
    [s EXCEPT !.is_running = FALSE,
              !.call[c] = CancelledFrame(s.call[c], client_closed)]

\* CancelledError raised at the await of frame call[c], up to the next
\* suspension.  In test_connection (new.py, lines 973-977) close_client is
\* not in a finally clause: the probe's client stays open.  In
\* crawl_single_theme the finally clause (lines 809-812) awaits close_client.
\* At close_client itself, the rest of the finally clause is skipped.
cancelled_at(s, c, closed) ==
    LET pc == s.call[c].pc IN
    IF pc \in {"sleep_probe", "sleep_retry"} THEN start_crawler_cancelled(s, c, TRUE)
    ELSE IF pc = "probe" THEN start_crawler_cancelled(s, c, FALSE)
    ELSE IF pc = "closing" THEN start_crawler_cancelled(s, c, closed)
    ELSE [s EXCEPT !.call[c].pc = "closing_cancelled", !.call[c].threads = <<>>,
                   !.call[c].all_threads = <<>>, !.call[c].detailed = <<>>,
                   !.call[c].saves = <<>>, !.call[c].detail = None,
                   !.call[c].response = None, !.call[c].page = 0, !.call[c].i = 0,
                   !.call[c].stopped = FALSE]

\* task.cancel() on the task of the invocation (scheduler_manager.py, lines
\* 94 and 245).
Cancel(c) ==
    /\ call[c].pc \in Cancellable
    /\ \E closed \in BOOLEAN : Commit(cancelled_at(S, c, closed))

\* close_client in the finally clause of a cancelled crawl_single_theme is
\* over: is_running = False, and CancelledError goes on to start_crawler.  If
\* close_client raised, its exception takes the place of CancelledError and
\* crawl_with_retry catches it.
CancelledCloseDone(c) ==
    /\ call[c].pc = "closing_cancelled"
    /\ \E closed \in BOOLEAN :
          Commit(IF closed
                 THEN start_crawler_cancelled([S EXCEPT !.crawler_is_running = FALSE], c, TRUE)
                 ELSE crawl_except(S, c))

NextCancel ==
    \/ NextOf({"scheduler"})
    \/ Cancel("scheduler")
    \/ CancelledCloseDone("scheduler")

\* The invocations of one scheduled task, which can be cancelled.
SpecCancel == InitOneCaller /\ [][NextCancel]_vars

\* ================================================================== tasks on the manager

\* The run_task coroutines of different tasks call start_crawler on the one
\* manager get_crawler_manager gives.  What the accepted crawl does is its
\* result, as in the scheduler alone; what is followed here is the manager's
\* is_running and the counters of the tasks.

\* Scheduled tasks that are run in this part, and runs of one of them.
MaxManagerTasks == 2
MaxManagerRuns == 2

ManagerTasks == 1..MaxManagerTasks

CommitOnManager(q, running) ==
    /\ scheduler_running' = q.scheduler_running
    /\ running_tasks' = q.running_tasks
    /\ tasks' = q.tasks
    /\ invocations' = q.invocations
    /\ polling' = q.polling
    /\ is_running' = running
    /\ UNCHANGED <<crawler, crawler_is_running, refresh_due, cookies_file, store, forum,
                   call, status_callback, crawler_status, keywords>>
    /\ UNCHANGED <<fetch_vars, pure_vars, cookie_vars>>

\* POST /api/scheduler/tasks/{id}/run: run_task_now awaits run_task, which
\* runs to the await of start_crawler, and start_crawler to its guard (lines
\* 238-241 of new_crawler_manager.py).  A rejected start_crawler returns
\* without suspending, and run_task records the result at once.
RunTaskOnManager(t) ==
    /\ row(Q, t).exists
    /\ row(Q, t).run_count < MaxManagerRuns
    /\ FreeHandles(Q) # {}
    /\ LET h == LowestFree(Q)
           q == run_task([Q EXCEPT !.invocations =
                             put(@, h, [pc |-> "created", task |-> t, origin |-> "manual",
                                        cancel |-> FALSE])], h)
       IN  IF is_running THEN CommitOnManager(run_task_result(q, h, "failure"), is_running)
           ELSE CommitOnManager(q, TRUE)

\* The accepted start_crawler comes back to run_task through its finally
\* clause (line 286), or an Exception is raised in run_task after it.
CrawlOnManagerDone(h) ==
    /\ frame(invocations, h).pc = "crawling"
    /\ \E outcome \in Outcomes : CommitOnManager(run_task_result(Q, h, outcome), FALSE)

NextTwoTasks ==
    \/ \E t \in ManagerTasks : RunTaskOnManager(t)
    \/ \E h \in Handles : CrawlOnManagerDone(h)
    \/ Stop

InitTwoTasks ==
    /\ scheduler_running = FALSE
    /\ running_tasks = Empty
    /\ \E crons \in [ManagerTasks -> TaskCrons] : tasks = [t \in ManagerTasks |-> NewTask(crons[t])]
    /\ invocations = NoInvocations
    /\ polling = Empty
    /\ CrawlerIdle /\ FetchIdle(1) /\ PureIdle /\ CookieFileIdle

SpecTwoTasks == InitTwoTasks /\ [][NextTwoTasks]_<<vars, scheduler_vars>>

\* ================================================================== the cookie file
\*
\* data/cookies.json is written by collect_cookies (collect_cookies.py, lines
\* 109-111) and read by CrawlerHttpClient.load_cookies (new.py, lines 77-88).
\* Both run without an await, so inside one event loop neither interrupts the
\* other; the writer is also a program of its own (collect_cookies.py, lines
\* 127-128), and then the two are processes that share the file and nothing
\* else.  A step is one system call's worth of work on the file.

\* Cookies in one export.
MaxCookies == 2

\* Calls of load_cookies.
MaxLoads == 2

JarCookies ==
    {[name |-> "sid", value |-> "a"], [name |-> "sid", value |-> "b"],
     [name |-> "cf_clearance", value |-> "c"]}

RECURSIVE Jars(_)
Jars(n) ==
    IF n = 0 THEN {<<>>}
    ELSE Jars(n - 1) \cup
         {Append(l, c) : l \in {k \in Jars(n - 1) : Len(k) = n - 1}, c \in JarCookies}

\* A file holding the whole JSON text of the list.
WholeFile(list) == [cookies |-> list, complete |-> TRUE]

\* The dict load_cookies builds from the list: a later cookie of a name
\* replaces an earlier one.
cookies_dict(list) ==
    {<<list[i].name, list[i].value>> : i \in {k \in 1..Len(list) :
        \A j \in (k + 1)..Len(list) : list[j].name # list[k].name}}

\* CrawlerHttpClient.load_cookies: {} without a file; json.load raises on a
\* text that is not whole, which the except clause turns into {}.
load_cookies(file) ==
    IF file = None THEN [cookies |-> {}, raised |-> FALSE]
    ELSE IF ~file.complete THEN [cookies |-> {}, raised |-> FALSE]
    ELSE [cookies |-> cookies_dict(file.cookies), raised |-> FALSE]

\* collect_cookies, line 110: open(..., 'w') truncates the file in place.
WriteOpen ==
    /\ jar_writer.pc = "idle"
    /\ \E list \in Jars(MaxCookies) :
          jar_writer' = [pc |-> "dump", cookies |-> list, previous |-> jar_file]
    /\ jar_file' = [cookies |-> <<>>, complete |-> FALSE]
    /\ UNCHANGED jar_loaded
    /\ UNCHANGED outside_cookie_file

\* collect_cookies, line 111: json.dump fills the buffer of f, which writes it
\* out when it is full; here after one more cookie.
WriteChunk ==
    /\ jar_writer.pc = "dump"
    /\ Len(jar_file.cookies) < Len(jar_writer.cookies)
    /\ jar_file' = [jar_file EXCEPT
                       !.cookies = Append(@, jar_writer.cookies[Len(jar_file.cookies) + 1])]
    /\ UNCHANGED <<jar_writer, jar_loaded>>
    /\ UNCHANGED outside_cookie_file

\* The with block ends: the rest of the text is written and the file closed.
WriteClose ==
    /\ jar_writer.pc = "dump"
    /\ jar_file' = WholeFile(jar_writer.cookies)
    /\ jar_writer' = [pc |-> "idle", cookies |-> <<>>, previous |-> None]
    /\ UNCHANGED jar_loaded
    /\ UNCHANGED outside_cookie_file

\* A write fails (no space left, the process is killed): the except clause of
\* line 121 returns [] and the file stays as far as it was written.
WriteFails ==
    /\ jar_writer.pc = "dump"
    /\ jar_writer' = [pc |-> "idle", cookies |-> <<>>, previous |-> None]
    /\ UNCHANGED <<jar_file, jar_loaded>>
    /\ UNCHANGED outside_cookie_file

\* create_client calls load_cookies.
LoadCookies ==
    /\ jar_loaded.loads < MaxLoads
    /\ LET loaded == load_cookies(jar_file)
       IN  jar_loaded' = [loads |-> jar_loaded.loads + 1, cookies |-> loaded.cookies,
                          raised |-> loaded.raised]
    /\ UNCHANGED <<jar_file, jar_writer>>
    /\ UNCHANGED outside_cookie_file

NextCookieFile ==
    \/ WriteOpen
    \/ WriteChunk
    \/ WriteClose
    \/ WriteFails
    \/ LoadCookies

\* No file yet, or the file an earlier acquisition left.
InitCookieFile ==
    /\ SchedulerInit /\ CrawlerIdle /\ FetchIdle(1) /\ PureIdle
    /\ jar_file \in {None} \cup {WholeFile(list) : list \in Jars(MaxCookies)}
    /\ jar_writer = [pc |-> "idle", cookies |-> <<>>, previous |-> None]
    /\ jar_loaded = [loads |-> 0, cookies |-> {}, raised |-> FALSE]

SpecCookieFile == InitCookieFile /\ [][NextCookieFile]_cookie_vars

\* ================================================================== properties

InFlight(c) == call[c].pc \notin {"idle", "done"}

Finished(c, message) == call[c].pc = "done" /\ call[c].result.message = message

\* The step starts a list-page fetch or a detail fetch of caller c.
StartsFetch(c) ==
    \/ call'[c].pc = "list" /\ (call[c].pc # "list" \/ call'[c].page # call[c].page)
    \/ call'[c].pc = "detail" /\ (call[c].pc # "detail" \/ call'[c].i # call[c].i)

\* ------------------------------------------------------------------ C1

\* C1, as stated: at most one start_crawler invocation of the manager is in
\* flight at any time, under every interleaving of start_crawler and
\* stop_crawler.  stop_crawler clears the manager's is_running while the first
\* invocation is still suspended, so a second one is accepted: violated.
C1_AtMostOneInFlight == Cardinality({c \in Callers : InFlight(c)}) <= 1

\* ------------------------------------------------------------------ C2

\* C2, as stated: once stop_crawler has set the stop flag during a
\* crawl_single_theme invocation, that invocation starts no further list-page
\* or detail fetch.  A start_crawler accepted after the stop (C1) raises the
\* shared flag again before the stopped invocation looks at it: violated.
C2_NoFetchAfterStop == [][\A c \in Callers : call[c].stopped => ~StartsFetch(c)]_vars

\* ------------------------------------------------------------------ C3

\* C3, as stated: an invocation that returns "connection failed" (no probe of
\* it succeeded) has made at most max_cf_retries + 1 ensure_fresh_cookies
\* calls.  start_crawler makes one of its own before the loop: violated.
C3_ChecksAtMostRetriesPlusOne ==
    \A c \in Callers : Finished(c, "connection_failed") => call[c].checks <= max_cf_retries + 1

\* C3, amended: as long as no probe of a start_crawler invocation has
\* succeeded, and when it returns "connection failed", the invocation has made
\* at most max_cf_retries + 2 ensure_fresh_cookies calls: one in start_crawler
\* and one in each of the max_cf_retries + 1 probe attempts.
C3_ChecksAtMostRetriesPlusTwo ==
    \A c \in Callers : call[c].checks <= max_cf_retries + 2

\* Every probe failed, and the invocation came back after max_cf_retries + 2 checks.
C3_Witness ==
    \E c \in Callers : Finished(c, "connection_failed") /\ call[c].checks = max_cf_retries + 2

\* ------------------------------------------------------------------ C4

\* C4, as stated: an invocation whose max_cf_retries + 1 crawl attempts all
\* came back with zero records returns success = false.  start_crawler reports
\* whatever crawl_with_retry returns as a completed crawl: violated.
C4_ExhaustedIsFailure ==
    \A c \in Callers :
        (Finished(c, "completed") /\ call[c].result.count = 0
            /\ call[c].crawls = max_cf_retries + 1) => ~call[c].result.success

\* ------------------------------------------------------------------ C5

\* C5, as stated: after a crawl attempt with zero records and retries left
\* there is always one more crawl attempt, so an invocation that ends with zero
\* records after at least one crawl attempt has made all max_cf_retries + 1.
\* The next iteration's ensure_fresh_cookies can fail or raise: violated.
C5_ZeroRecordsMeansAllAttempts ==
    \A c \in Callers :
        (Finished(c, "completed") /\ call[c].result.count = 0 /\ call[c].crawls >= 1)
            => call[c].crawls = max_cf_retries + 1

\* The crawl attempt of c ends in this step.
C5_AttemptEnds(c) == call[c].pc = "closing" /\ call'[c].pc # "closing"

\* What crawl_with_retry makes of an exception in attempt k.
C5_Excepted(c, k) ==
    IF k < max_cf_retries THEN call'[c].pc = "acq_except" /\ call'[c].attempt = k
    ELSE call'[c].pc = "done" /\ call'[c].result.count = 0

\* C5, amended: a crawl attempt that returns at least one record ends the
\* invocation with those records; one that returns none with fewer than
\* max_cf_retries retries used is followed by one re-acquisition and the retry
\* wait, and then by the next iteration, which makes one more crawl attempt
\* unless its ensure_fresh_cookies needs an acquisition first or raises; one
\* that returns none with the retries used up ends the invocation.  An attempt
\* that raises instead of returning is retried in the same way, whatever it had
\* collected.  No invocation makes more than max_cf_retries + 1 crawl attempts.
C5_RetryAfterZeroRecords ==
    [][\A c \in Callers :
        /\ call'[c].crawls <= max_cf_retries + 1
        /\ C5_AttemptEnds(c) =>
              \/ C5_Excepted(c, call[c].attempt) /\ call'[c].crawls = call[c].crawls
              \/ IF call[c].detailed # <<>>
                 THEN /\ call'[c].pc = "done"
                      /\ call'[c].result.success
                      /\ call'[c].result.count = Len(call[c].detailed)
                 ELSE IF call[c].attempt < max_cf_retries
                      THEN call'[c].pc = "acq_retry" /\ call'[c].attempt = call[c].attempt
                                                     /\ call'[c].crawls = call[c].crawls
                      ELSE call'[c].pc = "done" /\ call'[c].result.count = 0
        /\ (call[c].pc \in {"acq_retry", "acq_except"} /\ call'[c].pc # call[c].pc) =>
              call'[c].pc = "sleep_retry" /\ call'[c].attempt = call[c].attempt
                                          /\ call'[c].crawls = call[c].crawls
        /\ (call[c].pc = "sleep_retry" /\ call'[c].pc # "sleep_retry") =>
              \/ call'[c].crawls = call[c].crawls + 1
              \/ call'[c].pc = "acq_crawl" /\ call'[c].attempt = call[c].attempt + 1
              \/ cookies_file' = "noaccess" /\ call'[c].crawls = call[c].crawls
                    /\ C5_Excepted(c, call[c].attempt + 1)]_vars

\* A second crawl attempt is under way: the first returned no record and was
\* followed by a re-acquisition and the wait.
C5_Witness == \E c \in Callers : call[c].pc = "list" /\ call[c].crawls = 2


\* ------------------------------------------------------------------ C6

\* What ensure_fresh_cookies answers with an acquisition: the refresh interval
\* has run out, or the cookie file is missing, empty or unparseable.
NeedsSession == refresh_due \/ cookies_file \in {"missing", "empty", "corrupt"}

\* C6: an accepted start_crawler that finds the session stale or the cookie
\* file missing, empty or unparseable starts with an acquisition and has
\* fetched nothing; when that acquisition is over, either it succeeded and the
\* first probe starts on a fresh session, or start_crawler returns failure
\* without having fetched any page.  No probe and no crawl attempt ever starts
\* on a session that needs an acquisition.
C6_AcquireBeforeFetch ==
    [][\A c \in Callers :
        /\ (call[c].pc = "idle" /\ call'[c].pc # "idle" /\ ~is_running /\ NeedsSession') =>
              call'[c].pc = "acq_start" /\ ~call'[c].fetched
        /\ (call[c].pc = "acq_start" /\ call'[c].pc # "acq_start") =>
              \/ call'[c].pc = "probe" /\ cookies_file' = "ok" /\ ~refresh_due'
              \/ call'[c].pc = "done" /\ ~call'[c].result.success /\ ~call'[c].fetched
        /\ (call'[c].pc = "probe" /\ call[c].pc # "probe") => ~NeedsSession'
        /\ (call'[c].pc = "list" /\ call[c].pc \notin {"list", "sleep_page"}) => ~NeedsSession']_vars

\* An acquisition that runs only because the cookie file is unparseable.
C6_Witness ==
    \E c \in Callers : call[c].pc = "acq_start" /\ ~refresh_due /\ cookies_file = "corrupt"

\* ------------------------------------------------------------------ C7

Messages == {"already_running", "no_cookies", "connection_failed", "completed", "exception"}

\* C7: whatever fails inside it, a start_crawler invocation that is over has
\* returned a result with a success flag and a message, and the failures of
\* acquisition, of the probe and of anything raised in it have success = false.
C7_AlwaysReturnsResult ==
    \A c \in Callers :
        call[c].pc = "done" =>
            /\ DOMAIN call[c].result = {"success", "message", "count"}
            /\ call[c].result.success \in BOOLEAN
            /\ call[c].result.message \in Messages
            /\ call[c].result.message \in {"no_cookies", "connection_failed", "exception"}
                  => ~call[c].result.success

\* start_crawler's except clause has turned an exception into a result.
C7_Witness == \E c \in Callers : Finished(c, "exception")

\* ------------------------------------------------------------------ C8

\* The save_to_database call c makes in this step, if it makes one.
C8_SaveCall(c) == call'[c].saves[Len(call'[c].saves)]

\* C8: the store never holds more than one record of a thread id, a record in
\* it is never replaced or changed, and a save_to_database call for a thread id
\* that has a record is skipped and the crawl goes on.
C8_FirstSeenWins ==
    [][/\ \A t \in TIDs : Len(store'[t]) <= 1 /\ (store[t] # <<>> => store'[t] = store[t])
       /\ \A c \in Callers :
             (Len(call'[c].saves) = Len(call[c].saves) + 1 /\ store[C8_SaveCall(c).tid] # <<>>) =>
                 C8_SaveCall(c).outcome = "skipped" /\ call'[c].pc = "sleep_detail"]_vars

\* A later crawl met a thread id already in the store and skipped it.
C8_Witness ==
    \E c \in Callers : \E k \in 1..Len(call[c].saves) : call[c].saves[k].outcome = "skipped"

\* ------------------------------------------------------------------ C9

\* C9: no record with an empty magnet set is in the store or in the sequence
\* a crawl returns; parse_thread_detail gives no record for a page without
\* magnet links, and save_to_database is not called for that thread.
C9_NoEmptyMagnetSet ==
    /\ \A t \in TIDs : \A k \in 1..Len(store[t]) : store[t][k].magnets # {}
    /\ \A c \in Callers :
          /\ \A k \in 1..Len(call[c].detailed) : call[c].detailed[k].magnets # {}
          /\ call[c].detail # None => call[c].detail.magnets # {}
          /\ (call[c].response # None /\ extract_magnet_links(call[c].response) = {}) =>
                /\ call[c].detail = None
                /\ \A k \in 1..Len(call[c].saves) :
                      call[c].saves[k].tid # call[c].threads[call[c].i].tid

\* A detail page that loaded and held no magnet link has been parsed.
C9_Witness ==
    \E c \in Callers :
        /\ call[c].pc = "sleep_detail"
        /\ call[c].response # None
        /\ call[c].response.status = 200
        /\ extract_magnet_links(call[c].response) = {}
        /\ call[c].detail = None

\* ------------------------------------------------------------------ C10

C10_Stored(save) == save.outcome = "stored"

C10_tids(records) == [k \in 1..Len(records) |-> records[k].tid]

\* C10, as stated: the sequence crawl_single_theme returns holds exactly the
\* threads its save_to_database calls persisted.  A thread is appended whatever
\* became of its save: violated.
C10_ReturnsPersistedOnly ==
    \A c \in Callers :
        call[c].pc = "closing" =>
            C10_tids(call[c].detailed) = C10_tids(SelectSeq(call[c].saves, C10_Stored))

\* C10, amended: the sequence crawl_single_theme returns holds exactly the
\* threads for which it called save_to_database, in that order, whether the
\* call persisted the thread, skipped it as existing or failed.
C10_ReturnsEverySaveCall ==
    \A c \in Callers : C10_tids(call[c].detailed) = C10_tids(call[c].saves)

\* A crawl returns a thread that its save_to_database call did not persist.
C10_Witness ==
    \E c \in Callers :
        /\ call[c].pc = "closing"
        /\ \E k \in 1..Len(call[c].saves) : call[c].saves[k].outcome # "stored"

\* ------------------------------------------------------------------ C11

\* The run_task coroutines of task t that have started and were not cancelled.
Running(t) ==
    {h \in Handles : frame(invocations, h).task = t /\ frame(invocations, h).pc = "crawling"
                        /\ ~frame(invocations, h).cancel}

\* The run_task coroutines of task t that are not over.
Outstanding(t) ==
    {h \in Handles : frame(invocations, h).task = t /\ frame(invocations, h).pc \in {"created", "crawling"}}

\* C11, as stated: at most one run_task invocation of a task is running at any
\* time, whether the polling loop or run_task_now launched it.  run_task_now
\* awaits run_task without a look at running_tasks: violated.
C11_OneInvocationPerTask == \A t \in TaskIds : Cardinality(Running(t)) <= 1

\* ------------------------------------------------------------------ C12

\* C12, as stated: whenever no invocation of a task is in flight, its
\* run_count is the sum of its success_count and error_count.  A cancelled
\* run_task has counted the run and leaves through CancelledError, which its
\* except clause does not catch: violated.
C12_RunsAreSuccessesPlusErrors ==
    \A t \in TaskIds :
        (row(Q, t).exists /\ Outstanding(t) = {}) =>
            row(Q, t).run_count = row(Q, t).success_count + row(Q, t).error_count

\* ------------------------------------------------------------------ C13

\* C13, as stated: when stop_scheduler returns, every invocation in flight
\* has been cancelled, running_tasks is empty and scheduler_running is false,
\* and while the scheduler stays stopped no polling loop launches a task.  An
\* invocation run_task_now started is in no running_tasks entry, and a loop
\* that was inside get_enabled_tasks during the stop still launches: violated.
C13_StopCancelsAndHalts ==
    [][/\ (scheduler_running /\ ~scheduler_running') =>
             /\ \A h \in Handles :
                   frame(invocations', h).pc \in {"created", "crawling"} => frame(invocations', h).cancel
             /\ running_tasks' = Empty
       /\ (~scheduler_running /\ ~scheduler_running') =>
             \A h \in Handles :
                 frame(invocations', h).pc = "created" => frame(invocations, h).pc = "created"
      ]_scheduler_vars

\* ------------------------------------------------------------------ C14

\* C14, as stated: at every moment at most max_concurrent HTTP requests of the
\* CrawlerHttpClient are in flight, whichever fetch issued them (probe, list
\* templates, detail).
C14_InFlightAtMostMaxConcurrent ==
    Cardinality({f \in DOMAIN fetches : fetches[f].pc = "in_flight"}) <= max_concurrent

\* ------------------------------------------------------------------ C16

\* C16, as stated: a failed HTTP request comes back to the caller of the fetch
\* operation as an error value; no fetch operation raises.
C16_FailureIsReturnedNotRaised ==
    \A f \in DOMAIN fetches :
        fetches[f].outcome = "failed" => fetches[f].pc = "returned" /\ fetches[f].value = "None"

\* ------------------------------------------------------------------ C15

\* The host is a loopback, private, link-local or multicast address.
IsLocalAddress(host) ==
    \E a \in Addresses :
        a.host = host /\ (a.is_private \/ a.is_loopback \/ a.is_link_local \/ a.is_multicast)

\* C15, as stated: a target whose host is a loopback, private, link-local or
\* multicast address (IPv4 or IPv6, with or without a port) or is in the
\* no-proxy list is requested without proxy; any other target with the
\* configured proxy.
C15_LocalTargetsBypassProxy ==
    applied = "get_proxies_for_request" =>
        IF \/ IsLocalAddress(input.target_url.hostname)
           \/ InNoProxy(input.target_url.hostname, input.no_proxy)
        THEN output = None
        ELSE output = input.proxy_config

\* ------------------------------------------------------------------ C17

\* The title meets none of the advertisement heuristics: no blocklisted keyword
\* in it, at least 5 characters after trimming, not made of symbols only, at
\* most 30% digits.
C17_FailsEveryHeuristic(title) ==
    /\ LET lowered == lower(title)
       IN  \A k \in 1..Len(ad_keywords) : ~Contains(lowered, ad_keywords[k])
    /\ Len(strip(title)) >= 5
    /\ \E i \in 1..Len(title) : IsWord(title[i]) \/ IsSpace(title[i])
    /\ 10 * Cardinality({i \in 1..Len(title) : title[i] \in Digits}) <= 3 * Len(title)

C17_Numeric(tid) == Len(tid) > 0 /\ \A i \in 1..Len(tid) : tid[i] \in Digits

\* The page has three thread anchors with three different threads, exactly one
\* of them with an advertisement title.
C17_ThreeAnchorsOneAd(html) ==
    /\ Len(html) = 3
    /\ \A i \in 1..3 : C17_Numeric(extract_tid(html[i].href))
    /\ \A i, j \in 1..3 : i # j => extract_tid(html[i].href) # extract_tid(html[j].href)
    /\ Cardinality({i \in 1..3 : ~C17_FailsEveryHeuristic(extract_title(html[i]))}) = 1

C18_OncePerHash ==
    applied = "extract_magnet_links" =>
        \A a, b \in output : a.hash = b.hash => a = b

\* ------------------------------------------------------------------ C19

\* The places of threads that hold the first occurrence of an identifier.
C19_Firsts(threads) ==
    {i \in 1..Len(threads) :
        threads[i].tid # 0 /\ \A j \in 1..(i - 1) : threads[j].tid # threads[i].tid}

\* The entries of threads at the places of C19_Firsts, in the order of threads.
C19_FirstOccurrences(threads) ==
    [k \in 1..Cardinality(C19_Firsts(threads)) |->
        threads[CHOOSE i \in C19_Firsts(threads) :
                    Cardinality({j \in C19_Firsts(threads) : j <= i}) = k]]

\* C19: deduplicate_threads returns the first occurrence of each thread
\* identifier, in input order, without the entries that have no identifier;
\* applied to its own result it returns that result.
C19_FirstOccurrencesIdempotent ==
    applied = "deduplicate_threads" =>
        /\ output = C19_FirstOccurrences(input.threads)
        /\ deduplicate_threads(output) = output

\* A list with an identifier twice under two titles and an entry without
\* identifier was deduplicated.
C19_Witness ==
    /\ applied = "deduplicate_threads"
    /\ \E i, j \in 1..Len(input.threads) :
          /\ i < j
          /\ input.threads[i].tid = input.threads[j].tid
          /\ input.threads[i].tid # 0
          /\ input.threads[i].title # input.threads[j].title
    /\ \E i \in 1..Len(input.threads) : input.threads[i].tid = 0
    /\ Len(output) = 1

\* ------------------------------------------------------------------ C20

\* C20: cover_images has at most 2 entries however many images carry the
\* product-code pattern, every cover image is one of all_images, and
\* all_images holds no URL twice.
C20_CoversCappedAndAmongAllImages ==
    applied = "extract_images" =>
        /\ Len(output.cover_images) <= 2
        /\ \A i \in 1..Len(output.cover_images) :
              \E j \in 1..Len(output.all_images) : output.all_images[j] = output.cover_images[i]
        /\ \A i, j \in 1..Len(output.all_images) :
              i # j => output.all_images[i] # output.all_images[j]

\* A page on which more than two images carry the product-code pattern, one of
\* them present as <img> and as link, was parsed: two covers were kept.
C20_Witness ==
    /\ applied = "extract_images"
    /\ Cardinality({j \in 1..Len(output.all_images) : has_code_pattern(output.all_images[j])}) > 2
    /\ \E i \in 1..Len(input.imgs) : input.links = <<absolute(img_src(input.imgs[i]))>>
    /\ Len(output.cover_images) = 2

\* ------------------------------------------------------------------ C21

\* The instant of an aware datetime, in minutes since 00:00 UTC of the first day.
C21_Instant(d) == d.wall - d.utcoffset

\* The time of day hh:mm as a wall-clock minute.
C21_At(hh, mm) == 60 * hh + mm

C21_Valid ==
    /\ applied = "_calculate_next_run"
    /\ input.timezone \in DOMAIN utcoffsets
    /\ croniter(input.cron_expression) # None

C27_Instant(d) == IF d.naive THEN d.wall - input.server ELSE d.wall - d.utcoffset

\* C27, as stated: a poll launches a task only if it is enabled and the instant
\* of its next_run is at or before the instant of the poll, and it launches
\* every enabled task whose next_run instant has passed and that has no
\* invocation in flight, whatever the task's timezone.  The loop compares the
\* stored wall-clock time with utcnow(): violated.
C27_LaunchedWhenDue ==
    applied = "start_scheduler" =>
        LET due == C27_Instant(output.next_run) <= input.computed + input.delay IN
        /\ output.launched => input.enabled /\ due
        /\ (input.enabled /\ due /\ input.entry # "running") => output.launched

\* ------------------------------------------------------------------ C22

\* C22: an Exception inside a poll iteration leaves the polling loop asleep
\* for its next iteration, the loop ends only after scheduler_running was
\* cleared, and a run of a task whose cron expression does not evaluate still
\* records its result and sets next_run to the time of the evaluation plus one
\* hour.
C22_SchedulerSurvivesErrors ==
    [][/\ \A l \in Loops :
             /\ loop(polling, l) = "querying" => loop(polling', l) # "idle"
             /\ (loop(polling, l) # "idle" /\ loop(polling', l) = "idle") => ~scheduler_running
       /\ \A h \in Handles :
             LET t == frame(invocations, h).task IN
             (/\ frame(invocations, h).pc = "crawling"
              /\ ~frame(invocations, h).cancel
              /\ frame(invocations', h).pc # "crawling"
              /\ at(tasks, t, DeletedTask).exists
              /\ croniter(at(tasks, t, DeletedTask).cron_expression) = None)
             => /\ tasks'[t].next_run = Naive(RunInstant + ServerOffset + 60)
                /\ tasks'[t].success_count + tasks'[t].error_count
                      = tasks[t].success_count + tasks[t].error_count + 1
      ]_scheduler_vars

\* The loop sleeps after a failed iteration with the scheduler still on, and a
\* task whose cron expression does not evaluate has run and got its next_run.
C22_Witness ==
    /\ scheduler_running
    /\ \E l \in Loops : loop(polling, l) = "sleeping_after_error"
    /\ \E t \in DOMAIN tasks :
          /\ croniter(tasks[t].cron_expression) = None
          /\ tasks[t].run_count = 1
          /\ tasks[t].next_run = Naive(RunInstant + ServerOffset + 60)

\* ------------------------------------------------------------------ C23

\* Caller c's coroutine moved in the step.
C23_Moved(c) ==
    \/ call'[c].pc # call[c].pc
    \/ call'[c].page # call[c].page
    \/ call'[c].i # call[c].i

\* C23: in a crawl during which no stop was requested, whatever a list page, a
\* detail fetch or a save came back with (nothing, a failure, an Exception),
\* the page loop goes on to the sleep and the next page until the last page of
\* the range, the detail loop then starts with the first surviving thread, and
\* it goes on to the sleep and the next thread until the last one.
C23_FailuresDoNotAbort ==
    [][\A c \in Callers :
        LET f == call[c]
            g == call'[c]
        IN  (C23_Moved(c) /\ ~f.stopped /\ ~g.stopped) =>
              /\ (f.pc = "list" /\ f.page < end_page) =>
                    \/ g.pc = "sleep_page" /\ g.page = f.page
                    \/ g.pc = "list" /\ g.page = f.page + 1
              /\ f.pc = "sleep_page" => g.pc = "list" /\ g.page = f.page + 1
              /\ (f.pc = "list" /\ f.page = end_page) =>
                    \/ g.pc = "detail" /\ g.i = 1 /\ g.threads # <<>>
                    \/ g.pc = "closing"
              /\ (f.pc = "detail" /\ f.i < Len(f.threads)) =>
                    \/ g.pc = "sleep_detail" /\ g.i = f.i
                    \/ g.pc = "detail" /\ g.i = f.i + 1
              /\ (f.pc = "sleep_detail" /\ f.i < Len(f.threads)) =>
                    g.pc = "detail" /\ g.i = f.i + 1
      ]_vars

\* Page 1 gave nothing (page 2 alone listed threads 2 and 1), the save of the
\* first thread failed, and the second thread's detail page is being fetched.
C23_Witness ==
    \E c \in Callers :
        /\ call[c].pc = "detail"
        /\ call[c].i = 2
        /\ call[c].threads = <<[tid |-> 2], [tid |-> 1]>>
        /\ Len(call[c].saves) = 1
        /\ call[c].saves[1].outcome = "failed"
        /\ ~call[c].stopped

\* ------------------------------------------------------------------ C28

\* C28, as stated: between the list-page fetch of a page and that of the next
\* page the crawl sleeps (the fetch of the next page never follows directly),
\* also when the earlier page failed, and there is no sleep after the final
\* page.  A page whose iteration raises takes continue past the sleep: violated.
C28_SleepBetweenPages ==
    [][\A c \in Callers :
        /\ (call[c].pc = "list" /\ call'[c].pc = "list") => call'[c].page = call[c].page
        /\ call'[c].pc = "sleep_page" => call'[c].page < end_page
      ]_vars


\* ------------------------------------------------------------------ C24

\* C24: whatever starts, stops, completions and failures came before, the
\* status route answers is_running = true exactly when a start_crawler
\* invocation is in flight on the manager.
C24_StatusIsInFlight ==
    get_crawler_status <=> \E c \in Callers : InFlight(c)

\* ------------------------------------------------------------------ C25

\* Where a start_crawler invocation is inside test_connection_with_retry.
C25_ProbeLoop == {"acq_probe", "probe", "acq_reprobe", "sleep_probe"}

\* Where start_crawler is once test_connection_with_retry has returned True:
\* at the first suspension of crawl_with_retry.
C25_ReturnedTrue == {"acq_crawl", "acq_except", "acq_retry", "list"}

C26_WaitsIncrease ==
    [][\A c \in Callers :
          (call[c].pc = "acq_reprobe" /\ call'[c] # call[c]) =>
              IF call[c].attempt = 0 THEN call'[c].pc # "sleep_probe"
              ELSE /\ call'[c].pc = "sleep_probe"
                   /\ call'[c].slept > 0
                   /\ call[c].slept > 0 => call'[c].slept > call[c].slept
      ]_vars

\* ------------------------------------------------------------------ C29

\* The step starts the requests of a list page of caller c.
C29_StartsList(c) ==
    call'[c].pc = "list" /\ (call[c].pc # "list" \/ call'[c].page # call[c].page)

\* The step starts the request of a detail page of caller c.
C29_StartsDetail(c) ==
    call'[c].pc = "detail" /\ (call[c].pc # "detail" \/ call'[c].i # call[c].i)

\* C29: in one crawl the list pages are requested one page at a time in
\* ascending order (the frame is at one page, whose two template requests
\* parse_list_page gathers): the first is start_page and each later one is
\* the page after the one requested last.  The detail pages are requested
\* one at a time in the order of the surviving threads, none while a list
\* page is outstanding, and between two detail requests lies the sleep that
\* ends the earlier iteration.
C29_OnePageAndOneDetailAtATime ==
    [][\A c \in Callers :
          /\ C29_StartsList(c) =>
                IF call[c].pc \in {"list", "sleep_page"}
                THEN call'[c].page = call[c].page + 1
                ELSE call'[c].page = start_page
          /\ C29_StartsDetail(c) =>
                IF call[c].pc \in {"detail", "sleep_detail"}
                THEN call[c].pc = "sleep_detail" /\ call'[c].i = call[c].i + 1
                ELSE /\ call[c].pc \in {"list", "sleep_page"}
                     /\ call'[c].i = 1
      ]_vars

\* The first detail page of a crawl gave a record that was stored, the sleep
\* is over and the second detail page is being requested.
C29_Witness ==
    \E c \in Callers :
        /\ call[c].pc = "detail"
        /\ call[c].i = 2
        /\ Len(call[c].threads) = 2
        /\ Len(call[c].saves) = 1
        /\ call[c].saves[1].outcome = "stored"

\* ------------------------------------------------------------------ C30

\* Where crawl_thread_details is in its loop.
C30_DetailPhase == {"detail", "sleep_detail"}

\* The links the list pages of the range carry.
C30_Listed ==
    UNION {{PageLinks(forum, p)[k] : k \in 1..Len(PageLinks(forum, p))} :
              p \in start_page..end_page}

\* thread passes the keywords the crawl was given.
C30_PassesKeywords(thread) ==
    (keywords # None /\ keywords.words # <<>>) =>
        \E k \in 1..Len(keywords.words) :
            Contains(lower(title_of(thread.tid)), lower(keywords.words[k]))

\* C30: one crawl_single_theme invocation lists, then deduplicates and
\* filters, then fetches details and persists.  The first detail page is
\* requested out of the iteration of the last page of the range; the threads
\* whose details are requested are listed links with a thread id, pairwise
\* different in it, that pass the keywords; the detail loop goes through them
\* once, in order, and no list page is requested after it began.
C30_ListThenFilterThenDetail ==
    [][\A c \in Callers :
          /\ (call'[c].pc = "detail" /\ call[c].pc \notin C30_DetailPhase) =>
                /\ call[c].pc = "list"
                /\ call[c].page = end_page
                /\ call'[c].i = 1
                /\ \A k \in 1..Len(call'[c].threads) :
                      /\ call'[c].threads[k] \in C30_Listed
                      /\ call'[c].threads[k].tid > 0
                      /\ C30_PassesKeywords(call'[c].threads[k])
                      /\ \A j \in 1..Len(call'[c].threads) :
                            j # k => call'[c].threads[j].tid # call'[c].threads[k].tid
          /\ call'[c].pc = "detail" => call'[c].i \in 1..Len(call'[c].threads)
          /\ call[c].pc \in C30_DetailPhase =>
                \/ /\ call'[c].pc \in C30_DetailPhase
                   /\ call'[c].threads = call[c].threads
                   /\ call'[c].i = IF call'[c].pc = call[c].pc THEN call[c].i
                                   ELSE IF call'[c].pc = "detail" THEN call[c].i + 1
                                   ELSE call[c].i
                \/ call'[c].pc = "closing"
      ]_vars

\* Keywords are configured; thread 1 and thread 2 were listed (page 2 links
\* both), thread 1 did not pass, and the detail page of thread 2 is requested.
C30_Witness ==
    \E c \in Callers :
        /\ keywords # None
        /\ keywords.words # <<>>
        /\ call[c].pc = "detail"
        /\ call[c].threads = <<[tid |-> 2]>>
\* ------------------------------------------------------------------ C31

\* The title of the link contains one of the configured keywords, letter case
\* apart.
C31_Matches(thread, configured) ==
    \E k \in 1..Len(configured.words) :
        LET title == lower(title_of(thread.tid))
            keyword == lower(configured.words[k])
        IN  \E i \in 0..Len(title) :
                /\ i + Len(keyword) <= Len(title)
                /\ \A j \in 1..Len(keyword) : title[i + j] = keyword[j]

\* The positions of the links that are to be kept.
C31_Kept(threads, configured) ==
    {i \in 1..Len(threads) : C31_Matches(threads[i], configured)}

C31_NoKeywords(configured) == configured = None \/ configured.words = <<>>

\* C31: with keywords configured the links that come out of the filter are
\* exactly the links whose title contains a configured keyword, letter case
\* apart, in their original order; with None or an empty list every link
\* comes out unchanged.
C31_KeepsExactlyMatching ==
    applied = "filter_threads_by_keywords" =>
        IF C31_NoKeywords(input.keywords) THEN output.threads = input.threads
        ELSE LET kept == C31_Kept(input.threads, input.keywords)
             IN  /\ Len(output.threads) = Cardinality(kept)
                 /\ \A i \in kept :
                        output.threads[Cardinality({j \in kept : j <= i})] = input.threads[i]

\* ------------------------------------------------------------------ C32

\* The value is at least 0 and at most 100.
C32_InRange(value) == value.den > 0 /\ 0 <= value.num /\ value.num <= 100 * value.den

\* The value is completed / total, as a percentage.
C32_Is(value, completed, total) ==
    value.den > 0 /\ total > 0 /\ value.num * total = completed * 100 * value.den

\* The values never decrease.
C32_Monotone(values) ==
    \A k \in 1..Len(values) : \A l \in k..Len(values) :
        values[k].num * values[l].den <= values[l].num * values[k].den

\* The iterations of a phase that report: those that reach the callback before
\* the phase stops.
C32_Reporting(events, reports) ==
    {k \in 1..Len(events) : events[k] \in reports /\ \A j \in 1..k : events[j] # "stopped"}

\* C32: every value given to the progress callback lies in 0..100 and is the
\* number of pages (threads) the phase has been through, the current one
\* included, over the number of pages (threads) of the phase, for every page
\* range and every number of threads, none included; within a phase the
\* values never decrease.
C32_ProgressIsCompletedOverTotal ==
    applied \in {"crawl_single_theme", "crawl_thread_details"} =>
        LET reports == IF applied = "crawl_single_theme" THEN {"parsed"}
                       ELSE {"no_detail", "saved"}
            seen == IF input.registered THEN C32_Reporting(input.events, reports) ELSE {}
        IN  /\ Len(output) = Cardinality(seen)
            /\ \A k \in seen :
                   LET value == output[Cardinality({j \in seen : j <= k})]
                   IN  C32_InRange(value) /\ C32_Is(value, k, Len(input.events))
            /\ C32_Monotone(output)

\* A range of two pages from page 2 on, reported twice.
C32_Witness ==
    /\ applied = "crawl_single_theme"
    /\ input.first_page = 2 /\ input.last_page = 3
    /\ output = <<progress(1, 2), progress(2, 2)>>

\* Three threads, the first skipped for want of magnets, the others reported.
C32_WitnessDetail ==
    /\ applied = "crawl_thread_details"
    /\ input.events = <<"no_magnets", "saved", "no_detail">>
    /\ output = <<progress(2, 3), progress(3, 3)>>

\* An empty page range with a callback: nothing is reported and nothing is
\* divided.
C32_WitnessEmpty ==
    /\ applied = "crawl_single_theme"
    /\ input.registered
    /\ input.last_page < input.first_page
    /\ output = <<>>

\* ------------------------------------------------------------------ C33

\* The cookie belongs to the target site (sehuatang.org or a host of it).
C33_OfTargetSite(cookie) == cookie.domain \in {".sehuatang.org", "www.sehuatang.org"}

\* C33: an acquisition that exports no cookie, or only cookies of another
\* domain than the target site's, is a failed acquisition: collect_cookies_auto
\* returns False and last_cookies_refresh is not advanced.
C33_NoSiteCookieIsFailure ==
    (/\ applied = "collect_cookies_auto"
     /\ ~input.export.raises
     /\ \A k \in 1..Len(input.export.cookies) : ~C33_OfTargetSite(input.export.cookies[k]))
    => /\ output.returned = FALSE
       /\ output.refresh_due = input.refresh_due

\* ------------------------------------------------------------------ C34

\* C34: the cookie file is replaced atomically: load_cookies running while
\* collect_cookies writes returns the whole previous cookie set or the whole
\* new one, never what a truncated or partly written file gives, and on a file
\* it cannot parse it returns an empty set and raises nothing.
C34_AtomicReplace ==
    [][jar_loaded'.loads = jar_loaded.loads + 1 =>
          /\ ~jar_loaded'.raised
          /\ jar_writer.pc = "dump" =>
                 \/ jar_loaded'.cookies = load_cookies(jar_writer.previous).cookies
                 \/ jar_loaded'.cookies = cookies_dict(jar_writer.cookies)
          /\ (jar_file # None /\ ~jar_file.complete) => jar_loaded'.cookies = {}]_cookie_vars

\* ------------------------------------------------------------------ C35

C35_Text == input.title \o <<" ">> \o input.content

\* The value v stands at index i of the text.
C35_ValueAt(i, v) ==
    i + Len(v) - 1 <= Len(C35_Text) /\ \A j \in 1..Len(v) : C35_Text[i + j - 1] = v[j]

\* The structured labels of the text: the format (its place in the list of
\* formats), where the label starts and its value, which follows the colon
\* after any number of spaces.
C35_Labels ==
    {l \in [format : 1..Len(censored_patterns), at : 1..Len(C35_Text),
            value : {V_censored, V_uncensored}] :
        LET literal == censored_patterns[l.format].literal
            colon == l.at + Len(literal)
        IN  /\ colon <= Len(C35_Text)
            /\ \A j \in 1..Len(literal) : C35_Text[l.at + j - 1] = literal[j]
            /\ C35_Text[colon] \in censored_patterns[l.format].colon
            /\ \E value \in (colon + 1)..Len(C35_Text) :
                   /\ \A j \in (colon + 1)..(value - 1) : C35_Text[j] = " "
                   /\ C35_ValueAt(value, l.value)}

\* An uncensored keyword occurs in the text, letter case apart.
C35_Keyword ==
    \E k \in 1..Len(uncensored_keywords), i \in 1..Len(C35_Text) :
        LET keyword == lower(uncensored_keywords[k])
        IN  /\ i + Len(keyword) - 1 <= Len(C35_Text)
            /\ \A j \in 1..Len(keyword) : lower_char(C35_Text[i + j - 1]) = keyword[j]

\* C35 as stated: a structured label decides whenever one is present: with a
\* label whose value is "censored" the flag is false even if a keyword occurs,
\* with labels that all say "uncensored" it is true; only without any label
\* does a keyword set the flag true, and keywords never set it false.
C35_LabelDecides ==
    applied = "check_uncensored" =>
        LET labels == C35_Labels
        IN  /\ (\E l \in labels : l.value = V_censored) => output = FALSE
            /\ (labels # {} /\ \A l \in labels : l.value = V_uncensored) => output = TRUE
            /\ labels = {} => output = C35_Keyword

\* The labels found first among labels: of the lowest format that occurs, the
\* leftmost occurrence.
C35_First(labels) ==
    {l \in labels :
        \A m \in labels : l.format < m.format \/ (l.format = m.format /\ l.at <= m.at)}

\* C35, amended: the structured label found first decides (formats in their
\* listed order, leftmost occurrence of a format): when its value is
\* "censored" the flag is false even if a keyword or a later "uncensored"
\* label occurs, when it is "uncensored" the flag is true; only without any
\* label does a keyword set the flag true, and keywords never set it false.
C35_FirstLabelDecides ==
    applied = "check_uncensored" =>
        LET labels == C35_Labels
        IN  /\ \A l \in C35_First(labels) : output = (l.value = V_uncensored)
            /\ labels = {} => output = C35_Keyword

\* A censored label with a keyword after it: the flag is false.
C35_Witness ==
    /\ applied = "check_uncensored"
    /\ \E l \in C35_First(C35_Labels) : l.value = V_censored
    /\ C35_Keyword
    /\ output = FALSE

\* No label and a keyword in capitals: the flag is true.
C35_WitnessKeyword ==
    /\ applied = "check_uncensored"
    /\ C35_Labels = {}
    /\ input.content = <<"U", "n", "c", "e", "n", "s", "o", "r", "e", "d">>
    /\ output = TRUE

\* ------------------------------------------------------------------ C36

\* With one caller the manager's is_running is cleared during an invocation
\* only by stop_crawler: start_crawler sets it before its first await and
\* clears it as it returns.
C36_Stopped(c) == InFlight(c) /\ ~is_running

\* The step begins a crawl attempt, a session acquisition or a wait before a
\* retry of caller c.
C36_StartsAgain(c) ==
    \/ call'[c].crawls = call[c].crawls + 1
    \/ /\ call'[c].pc \in {"acq_start", "acq_probe", "acq_reprobe", "acq_crawl", "acq_retry",
                            "acq_except", "sleep_probe", "sleep_retry"}
       /\ call'[c].pc # call[c].pc

\* C36: a stop is not undone by the retry wrapper: once stop_crawler was
\* called while start_crawler is in flight, the manager starts no further
\* crawl attempt, session acquisition or retry wait for that invocation.
C36_StopIsNotUndone == [][C36_Stopped("api") => ~C36_StartsAgain("api")]_vars

\* ------------------------------------------------------------------ C37

\* The caller is inside the loops of a crawl_single_theme invocation.
C37_Crawling(c) == call[c].pc \in {"list", "sleep_page", "detail", "sleep_detail"}

\* The step is the end of the crawl_single_theme invocation of caller c: its
\* finally clause has closed the client.
C37_CrawlEnds(c) == call[c].pc = "closing" /\ call'[c].pc # "closing"

\* C37: a stop signal is never lost and a crawl's end touches no other crawl:
\* the crawl that was running when stop_crawler was called fetches no further
\* page, also when a new start_crawler is accepted before its next stop check,
\* and the end of one crawl leaves the flag of another crawl that is still
\* running, and was not stopped, set.
C37_StopSignalNeverLost ==
    [][\A c \in Callers :
          /\ call[c].stopped => ~StartsFetch(c)
          /\ \A d \in Callers \ {c} :
                 (C37_CrawlEnds(c) /\ C37_Crawling(d) /\ ~call[d].stopped /\ crawler_is_running)
                 => crawler_is_running']_vars

\* ------------------------------------------------------------------ C38

\* The sleep of polling loop l ends and the loop goes on to its next
\* iteration.
C38_GoesOn(l) ==
    /\ loop(polling, l) \in {"sleeping", "sleeping_after_error"}
    /\ loop(polling', l) = "querying"

\* C38: at most one polling loop is active at any time, for every sequence of
\* start_scheduler and stop_scheduler calls, a start_scheduler issued while a
\* stopped loop is still in its sleep included: a loop that wakes goes on
\* polling only if no other start_scheduler coroutine has been started
\* meanwhile and is alive.
C38_AtMostOneLoop ==
    [][\A l \in Loops :
          C38_GoesOn(l) => \A m \in Loops \ {l} : loop(polling, m) = "idle"]_scheduler_vars

\* The step ends an invocation of start_crawler that was accepted: it
\* returns, or an exception or CancelledError leaves it.
C39_Exits(c) ==
    /\ call[c].pc # "done"
    /\ call'[c].pc = "done"
    /\ ~("message" \in DOMAIN call'[c].result /\ call'[c].result.message = "already_running")

\* Every client the invocation created was closed, as far as the frame it
\* leaves tells.
C39_ClientClosed(result) ==
    "client_closed" \in DOMAIN result => result.client_closed

\* C39: on every exit path (success, failure, exception, cancellation) a
\* start_crawler invocation leaves manager.is_running false and the
\* orchestrator's is_running false, with its HTTP client closed.
C39_ExitLeavesNothingBehind ==
    [][\A c \in Callers :
          C39_Exits(c) => /\ ~is_running'
                          /\ ~crawler_is_running'
                          /\ C39_ClientClosed(call'[c].result)]_vars

\* The tasks with a run_task coroutine inside start_crawler, past its guard.
C40_Crawling ==
    {invocations[h].task : h \in {g \in DOMAIN invocations : invocations[g].pc = "crawling"}}

\* The step is a run of task t that finds the manager running.
C40_RunsWhileRunning(t) ==
    /\ is_running
    /\ C40_Crawling \ {t} # {}
    /\ row(Q, t).exists
    /\ tasks'[t].run_count = tasks[t].run_count + 1

\* The run was rejected and recorded as an error of the task, not as a
\* success, and the crawl in flight goes on as it was.
C40_Rejected(t) ==
    /\ tasks'[t].error_count = tasks[t].error_count + 1
    /\ tasks'[t].success_count = tasks[t].success_count
    /\ invocations' = invocations
    /\ is_running'

\* C40: of the tasks in flight on the one manager at most one crawls; the run
\* of another is rejected as 'already running', recorded as an error of that
\* task and never as a success, and does not disturb the crawl of the first.
C40_OneTaskCrawls ==
    [][/\ Cardinality(C40_Crawling') <= 1
       /\ \A t \in ManagerTasks : C40_RunsWhileRunning(t) => C40_Rejected(t)]_<<vars, scheduler_vars>>

====
